---- MODULE Spec2Model ----
(***************************************************************************)
(* Model of the eired-display compositing core (crate eired-display).      *)
(*                                                                         *)
(* The specifications of this module:                                      *)
(*   Spec          a Layer driven through its public API                   *)
(*                 (push_span_write, push_span_fixed,                      *)
(*                 push_span_only_valid, add_offset, take_with);           *)
(*   SpecConflict  Annot::is_conflict applied to pairs of positioned Rects;*)
(*   SpecSplit     Span::split_by applied to a Span and a list of offsets; *)
(*   SpecSpan      a Span driven through its mutating API;                 *)
(*   SpecOverlap   Layer::overlap applied to two conflict-free Layers;     *)
(*   SpecCanvas    a Canvas driven through its public API;                 *)
(*   SpecView      create_view applied to small and to large Canvases;     *)
(*   SpecWindow    views queued in a Window, then                          *)
(*                 create_virtual_terminal;                                *)
(*   SpecFrame     a Window resized, then create_virtual_terminal;         *)
(*   SpecDraw      convert_to_spans applied to a frame buffer;             *)
(*   SpecFixed     push_span_fixed on a Layer, one turn of its work queue  *)
(*                 at a time.                                              *)
(*                                                                         *)
(* debug_assert! is compiled in or out by the build profile, so the build  *)
(* is part of the initial state (debug_assertions).  A failed assertion    *)
(* aborts the call; the model records its message in `panic` and stops.    *)
(* Coordinates are u16 in the source.  The sums and products of            *)
(* create_view, the products of get_line, the sum, products and            *)
(* difference of create_virtual_terminal and the casts of convert_to_spans *)
(* are computed in 16 bits: an overflow aborts where overflow checks are   *)
(* compiled in and wraps elsewhere.  The other sums (the sizes and         *)
(* positions push_span, add_offset, outer_apex_pos and apply_layer add up, *)
(* the start of a paint command) are sums of inputs that stay far below    *)
(* 65535 in every specification, and are not reduced.                      *)
(* The module files (annot.rs, span.rs, layer.rs, canvas.rs, view.rs,      *)
(* window.rs) are the code modelled;                                       *)
(* lib.rs is read only for Rect, which no module file defines.             *)
(***************************************************************************)
EXTENDS Integers, Sequences, FiniteSets, TLC

\* ---- bounds of the model -------------------------------------------------
\* number of API calls made on the Layer
MaxOps == 3
\* largest base coordinate and largest side of a Rect handed to is_conflict
MaxCoord == 2
MaxSide == 2
\* longest Span and longest offset list handed to split_by
MaxSplitLen == 3
MaxOffsets == 2
\* number of calls made on the Span of SpecSpan
MaxSpanOps == 3
\* number of runs in each of the two Layers handed to overlap
MaxLayerRuns == 2
\* number of layers handed to the Canvas
MaxCanvasOps == 2
\* number of views queued in the Window
MaxViews == 2
\* number of runs stored in the Layer before push_span_fixed is called
MaxStored == 2
\* largest width and height of a frame handed to convert_to_spans
MaxTermWidth == 3
MaxTermHeight == 2

\* ---- inputs of the Layer calls --------------------------------------------
\* lengths of the runs handed to a push: empty, one cell, and runs long
\* enough to cover two neighbours and the gap after them
RunLens == 0..3
\* base columns and base rows of the runs handed to a push
RunCols == 0..1
RunRows == 0..1
\* offset components handed to add_offset
Offsets == 0..1

\* lengths of the runs of the two Layers handed to overlap: one cell, and a
\* run long enough to cover a run of the other Layer and both its neighbours
LayerRunLens == {1, 3}

\* ---- inputs of the Canvas calls -------------------------------------------
\* every layer handed to the Canvas holds one run on its row 0: its length,
\* its column, and the base the layer is annotated with
CanvasRunLens == {1, 3}
CanvasRunCols == 0..1
CanvasBases == {<<0, 0>>, <<1, 0>>, <<0, 1>>}
\* z-indices handed to insert, merge and insert_or_merge
CanvasZs == {0, 2}
\* bases of the one-cell layer of the large Canvases create_view is applied
\* to: the Canvas is 255 x 256 (65280 positions), 256 x 256 (65536) and
\* 256 x 257 (65792), every side a u16
LargeBases == {<<254, 255>>, <<255, 255>>, <<255, 256>>}

\* ---- inputs of the Window calls -------------------------------------------
\* sides of the Window: none, and two cells
WindowSides == {0, 2}
\* sizes and offsets of the queued views: no column, as wide as the Window
\* and wider; shorter than the Window and as tall; offsets inside the
\* Window and (rows) beyond its height
ViewWidths == {0, 2, 3}
ViewHeights == {1, 2}
ViewCols == {0, 1}
ViewRows == {0, 1, 3}
\* width and height of the wide view: two rows of half the u16 range each
WideView == <<32768, 2>>

\* sides of the Windows whose frame size is computed: small ones, and the
\* ones around the 16-bit limit of the product (255 * 257 = 65535,
\* 256 * 256 = 65536, 300 * 300 = 90000)
FrameSides == {0, 1, 2, 3, 255, 256, 257, 300}

\* runs stored before push_span_fixed is called (all on row 0): one cell, and
\* long enough to hold a new run strictly inside; and the runs handed to it:
\* empty, one cell, and runs long enough to conflict with two stored runs
\* and the gap between them
FixedStoredLens == {1, 3}
FixedStoredCols == 0..3
FixedNewLens == {0, 1, 3, 5}
FixedNewCols == {0, 1}

\* width and height of the long frames handed to convert_to_spans:
\* 3 * 21846 = 65538 entries
LongFrame == <<3, 21846>>
\* bases of the frames handed to convert_to_spans
DrawBases == {<<0, 0>>, <<1, 2>>}

\* ---- inputs of the Span calls ---------------------------------------------
\* lengths of the two Spans at the start, and of the iterator of extend
SpanLens == 0..2
\* counts handed to truncate_front / truncate_back: below, at and beyond
\* the lengths the Span takes
TruncNums == 0..3
\* indices handed to replace_at
ReplaceIdx == 0..2

VARIABLES
    layer,             \* Layer { width, height, spans }
    panic,             \* "none", or the message of the assertion that aborted
    debug_assertions,  \* cfg!(debug_assertions) of the build
    ops,               \* number of API calls made so far
    call,              \* the last API call and its argument
    pre,               \* the Layer as it was before the last call
    box_a, box_b,      \* SpecConflict: the two positioned Rects
    conflict,          \* SpecConflict: results of is_conflict, both ways
    split_in,          \* SpecSplit: the Span and the offsets
    split_out,         \* SpecSplit: what split_by returned
    run,               \* SpecSpan: the Span the calls are made on
    run_source,        \* SpecSpan: the Span handed to append as its source
    run_call,          \* SpecSpan: the last call, its arguments and result
    below, above,      \* SpecOverlap: the Layer overlap is called on, and
                       \* the Layer handed to it as `upper`
    overlapped,        \* SpecOverlap: the call of overlap and what it returned
    canvas,            \* SpecCanvas: Canvas { front, width, height, layers }
    canvas_call,       \* SpecCanvas: the last call, its arguments and result
    window,            \* SpecWindow: Annot<Window>, its views queued
    vterm,             \* SpecWindow: what create_virtual_terminal returned
    frame,             \* SpecDraw: the Annot<VTerm> handed to convert_to_spans
    drawn,             \* SpecDraw: what convert_to_spans returned
    fixed              \* SpecFixed: the locals of a push_span_fixed in progress

vars == <<layer, panic, debug_assertions, ops, call, pre,
          box_a, box_b, conflict, split_in, split_out,
          run, run_source, run_call, below, above, overlapped,
          canvas, canvas_call, window, vterm, frame, drawn, fixed>>

layerVars == <<layer, panic, debug_assertions, ops, call, pre>>
conflictVars == <<box_a, box_b, conflict>>
splitVars == <<split_in, split_out>>
spanVars == <<run, run_source, run_call>>
overlapVars == <<below, above, overlapped>>
canvasVars == <<canvas, canvas_call>>
windowVars == <<window, vterm>>
drawVars == <<frame, drawn>>
fixedVars == <<fixed>>

\* ---- Option<T> ------------------------------------------------------------
None == [some |-> FALSE]
Some(v) == [some |-> TRUE, val |-> v]

Max(a, b) == IF a >= b THEN a ELSE b
Min(a, b) == IF a <= b THEN a ELSE b

\* ---- Cell (cell.rs) -------------------------------------------------------
\* Cell::default(): ' ' (32) with reset styles
CellDefault == [ch |-> 32, fg |-> "Reset", bg |-> "Reset"]

\* Cell::from(char) / Cell::new(ch)
Cell(ch) == [CellDefault EXCEPT !.ch = ch]

\* ---- Rect (lib.rs) --------------------------------------------------------
Rect(width, height) == [rect_w |-> width, rect_h |-> height]

\* ---- Span (span.rs) -------------------------------------------------------
SpanDefault == [len |-> 0, cells |-> <<>>]

span_push_back(span, cell) ==
    [len |-> span.len + 1, cells |-> Append(span.cells, cell)]

RECURSIVE span_from_iter_loop(_, _)
span_from_iter_loop(span, iter) ==
    IF iter = <<>> THEN span
    ELSE span_from_iter_loop(span_push_back(span, Head(iter)), Tail(iter))

\* impl FromIterator<Cell> for Span
span_from_iter(iter) == span_from_iter_loop(SpanDefault, iter)

\* impl From<&str> for Span, the string given as its chars
span_from(chars) ==
    span_from_iter([i \in 1..Len(chars) |-> Cell(chars[i])])

span_to_vec(span) == span.cells

\* <[Cell]>::get(i..j) with 0-based half-open bounds
slice_get(cells, i, j) ==
    IF i <= j /\ j <= Len(cells) THEN Some(SubSeq(cells, i + 1, j)) ELSE None

\* <[Cell]>::get(i..)
slice_get_from(cells, i) ==
    IF i <= Len(cells) THEN Some(SubSeq(cells, i + 1, Len(cells))) ELSE None

option_map_span(opt) ==
    IF opt.some THEN Some(span_from_iter(opt.val)) ELSE None

RECURSIVE split_by_loop(_, _, _, _, _)

\* one turn of `for j in indecies`, `got` being cells.get(i..j)
split_by_turn(cells, indecies, k, i, res, got) ==
    IF got.some
    THEN split_by_loop(cells, indecies, k + 1, indecies[k],
                       Append(res, option_map_span(got)))
    ELSE split_by_loop(cells, indecies, k + 1, indecies[k],
                       Append(Append(res,
                           option_map_span(slice_get_from(cells, i))),
                           None))

\* `for j in indecies` of split_by: [res, i]
split_by_loop(cells, indecies, k, i, res) ==
    IF k > Len(indecies) THEN [res |-> res, i |-> i]
    ELSE split_by_turn(cells, indecies, k, i, res,
                       slice_get(cells, i, indecies[k]))

\* split_by after the loop: `if res.last().is_some() { res.push(..) }`
split_by_tail(cells, done) ==
    IF Len(done.res) > 0
    THEN Append(done.res, option_map_span(slice_get_from(cells, done.i)))
    ELSE done.res

\* <[u16]>::is_sorted
is_sorted(indecies) ==
    \A k \in 1..(Len(indecies) - 1) : indecies[k] <= indecies[k + 1]

\* Span::split_by: [ret, panic]; `dbg` is cfg!(debug_assertions), which
\* compiles `debug_assert!(indecies.is_sorted(), ..)` in
split_by(span, indecies, dbg) ==
    IF dbg /\ ~is_sorted(indecies)
    THEN [ret |-> <<>>, panic |-> "indecies not sorted"]
    ELSE [ret |-> split_by_tail(span_to_vec(span),
                      split_by_loop(span_to_vec(span), indecies, 1, 0, <<>>)),
          panic |-> "none"]

\* Span::append: the target after the call
append_target(target, source) ==
    [len |-> target.len + source.len,
     cells |-> target.cells \o source.cells]

\* Span::append: the source after the call; mem::take leaves Cell::default()
\* in the place of every cell and source.len is not written
append_source(source) ==
    [source EXCEPT !.cells = [i \in 1..Len(source.cells) |-> CellDefault]]

\* Span::push_all: `s.into()` is a Span of the caller's cells, which append
\* takes the cells of and which is dropped at the end of the call
push_all(self, s) == append_target(self, s)

\* Span::len and Span::is_empty
span_len(span) == span.len
span_is_empty(span) == span_len(span) = 0

\* Span::push_front
span_push_front(span, cell) ==
    [len |-> span.len + 1, cells |-> <<cell>> \o span.cells]

\* VecDeque::pop_back / pop_front: [cells, ret]
deque_pop_back(cells) ==
    IF cells = <<>> THEN [cells |-> cells, ret |-> None]
    ELSE [cells |-> SubSeq(cells, 1, Len(cells) - 1),
          ret |-> Some(cells[Len(cells)])]

deque_pop_front(cells) ==
    IF cells = <<>> THEN [cells |-> cells, ret |-> None]
    ELSE [cells |-> Tail(cells), ret |-> Some(Head(cells))]

\* Span::pop_back / pop_front after the deque was popped: [span, ret]
span_popped(len, popped) ==
    [span |-> [len |-> len, cells |-> popped.cells], ret |-> popped.ret]

\* pop_back without its `if !self.is_empty()`
span_pop_back_unguarded(span) ==
    span_popped(span.len - 1, deque_pop_back(span.cells))

\* Span::pop_back: [span, ret]
span_pop_back(span) ==
    span_popped(IF ~span_is_empty(span) THEN span.len - 1 ELSE span.len,
                deque_pop_back(span.cells))

\* Span::pop_front: [span, ret]
span_pop_front(span) ==
    span_popped(IF ~span_is_empty(span) THEN span.len - 1 ELSE span.len,
                deque_pop_front(span.cells))

\* Span::truncate_front: [span, panic]; VecDeque::drain(num..) panics, in
\* every build, when num is beyond the deque's length
truncate_front(span, num) ==
    IF num > Len(span.cells)
    THEN [span |-> span, panic |-> "VecDeque::drain range out of bounds"]
    ELSE [span |-> [len |-> Max(span_len(span), num) - num,
                    cells |-> SubSeq(span.cells, num + 1, Len(span.cells))],
          panic |-> "none"]

\* VecDeque::truncate(len): keeps the first len cells, no-op when len is
\* not below the deque's length
deque_truncate(cells, len) ==
    IF len >= Len(cells) THEN cells ELSE SubSeq(cells, 1, len)

\* Span::truncate_back
truncate_back(span, num) ==
    [len |-> Max(span_len(span), num) - num,
     cells |-> deque_truncate(span.cells, Max(span_len(span), num) - num)]

\* impl Extend<Cell> for Span
span_extend(span, iter) ==
    [len |-> span.len + Len(iter), cells |-> span.cells \o iter]

\* Span::replace_at: [span, ret]
replace_at(span, idx, cell) ==
    IF idx < Len(span.cells)
    THEN [span |-> [span EXCEPT !.cells[idx + 1] = cell],
          ret |-> Some(span.cells[idx + 1])]
    ELSE [span |-> span, ret |-> None]

\* Span::get_mut(idx), `cell` written through the reference it hands out:
\* [span, ret], ret being the cell the reference pointed at
get_mut(span, idx, cell) ==
    IF idx < Len(span.cells)
    THEN [span |-> [span EXCEPT !.cells[idx + 1] = cell],
          ret |-> Some(span.cells[idx + 1])]
    ELSE [span |-> span, ret |-> None]

\* ---- Annot / Annotate (annot.rs) ------------------------------------------
annotate(inner, root) ==
    [base_x |-> root[1], base_y |-> root[2], inner |-> inner]

\* Annotate::get_size of the payload: Span (len, 1), Rect (w, h),
\* Layer, View, Window and VTerm (width, height)
get_size(inner) ==
    IF "len" \in DOMAIN inner THEN <<inner.len, 1>>
    ELSE IF "rect_w" \in DOMAIN inner THEN <<inner.rect_w, inner.rect_h>>
    ELSE <<inner.width, inner.height>>

base_pos(a) == <<a.base_x, a.base_y>>
width(a) == get_size(a.inner)[1]
height(a) == get_size(a.inner)[2]
is_empty(a) == width(a) = 0 \/ height(a) = 0
outer_apex_pos(a) == <<a.base_x + width(a), a.base_y + height(a)>>

\* is_conflict with >= for >: boxes whose edges touch count as conflicting
is_conflict_touching(self, other) ==
    IF is_empty(self) \/ is_empty(other) THEN FALSE
    ELSE /\ outer_apex_pos(self)[1] >= other.base_x
         /\ outer_apex_pos(other)[1] >= self.base_x
         /\ outer_apex_pos(self)[2] >= other.base_y
         /\ outer_apex_pos(other)[2] >= self.base_y

\* Annot::is_conflict
is_conflict(self, other) ==
    IF is_empty(self) \/ is_empty(other) THEN FALSE
    ELSE /\ outer_apex_pos(self)[1] > other.base_x
         /\ outer_apex_pos(other)[1] > self.base_x
         /\ outer_apex_pos(self)[2] > other.base_y
         /\ outer_apex_pos(other)[2] > self.base_y

contains_pos(self, rel_x, rel_y) ==
    is_conflict(self, annotate(Rect(1, 1), <<rel_x, rel_y>>))

\* ---- Layer (layer.rs) -----------------------------------------------------
LayerDefault == [width |-> 0, height |-> 0, spans |-> <<>>]

\* a push_span that takes the size of the run pushed last instead of the
\* maximum with the cached size
push_span_size_of_last(l, span) ==
    [width |-> outer_apex_pos(span)[1],
     height |-> outer_apex_pos(span)[2],
     spans |-> Append(l.spans, span)]

\* Layer::push_span
push_span(l, span) ==
    [width |-> Max(l.width, outer_apex_pos(span)[1]),
     height |-> Max(l.height, outer_apex_pos(span)[2]),
     spans |-> Append(l.spans, span)]

\* Option<Span>::take().map(|p| p.annotate(root))
option_annotate(opt, root) ==
    IF opt.some THEN Some(annotate(opt.val, root)) ELSE None

\* Iterator::flatten over a Vec<Option<_>>
RECURSIVE flatten(_)
flatten(opts) ==
    IF opts = <<>> THEN <<>>
    ELSE (IF Head(opts).some THEN <<Head(opts).val>> ELSE <<>>)
         \o flatten(Tail(opts))

\* the end of resolve_conflict: its assertions, then
\* `solved.into_iter().flatten().collect()`; `dbg` is cfg!(debug_assertions)
resolve_collect(dbg, parts_len_ok, solved) ==
    IF dbg /\ ~parts_len_ok
    THEN [solved |-> <<>>, panic |-> "Span::split_by impl error"]
    ELSE IF dbg /\ solved = <<>>
    THEN [solved |-> <<>>, panic |-> "unsolved conflict"]
    ELSE [solved |-> flatten(solved), panic |-> "none"]

\* the (true, true) arm, `parts` being what split_by returned or aborted
\* with
resolve_both(base, overlap, dbg, parts) ==
    IF parts.panic # "none" THEN [solved |-> <<>>, panic |-> parts.panic]
    ELSE resolve_collect(dbg, Len(parts.ret) = 3,
        <<option_annotate(parts.ret[1], base_pos(base)),
          option_annotate(parts.ret[3],
              <<outer_apex_pos(overlap)[1], base_pos(base)[2]>>)>>)

\* the (true, false) arm
resolve_begin(base, dbg, parts) ==
    IF parts.panic # "none" THEN [solved |-> <<>>, panic |-> parts.panic]
    ELSE resolve_collect(dbg, Len(parts.ret) = 2,
        <<option_annotate(parts.ret[1], base_pos(base))>>)

\* the (false, true) arm
resolve_end(base, overlap, dbg, parts) ==
    IF parts.panic # "none" THEN [solved |-> <<>>, panic |-> parts.panic]
    ELSE resolve_collect(dbg, Len(parts.ret) = 2,
        <<option_annotate(parts.ret[2],
              <<outer_apex_pos(overlap)[1], base_pos(base)[2]>>)>>)

\* `match (is_include_begin, is_include_end)` of resolve_conflict
resolve_match(base, overlap, dbg, is_include_begin, is_include_end) ==
    IF is_include_begin /\ is_include_end
    THEN resolve_both(base, overlap, dbg,
             split_by(base.inner,
                 <<base_pos(overlap)[1] - base_pos(base)[1],
                   outer_apex_pos(overlap)[1] - base_pos(base)[1]>>, dbg))
    ELSE IF is_include_begin
    THEN resolve_begin(base, dbg,
             split_by(base.inner,
                 <<base_pos(overlap)[1] - base_pos(base)[1]>>, dbg))
    ELSE IF is_include_end
    THEN resolve_end(base, overlap, dbg,
             split_by(base.inner,
                 <<outer_apex_pos(overlap)[1] - base_pos(base)[1]>>, dbg))
    ELSE resolve_collect(dbg, TRUE, <<>>)

\* Layer::resolve_conflict: [solved, panic]
resolve_conflict(base, overlap, dbg) ==
    IF ~is_conflict(base, overlap)
    THEN [solved |-> <<base>>, panic |-> "none"]
    ELSE resolve_match(base, overlap, dbg,
             contains_pos(base, base_pos(overlap)[1], base_pos(base)[2]),
             contains_pos(base, outer_apex_pos(overlap)[1] - 1,
                          base_pos(base)[2]))

\* the `while let Some(i_span) = self.spans.pop()` loop of push_span_write:
\* [rest, tmp, panic]; rest is what self.spans still holds when it ends
RECURSIVE write_pop_loop(_, _, _, _)

\* one turn of that loop, `r` being resolve_conflict(i_span, &span)
write_pop_step(popped, tmp, span, dbg, r) ==
    IF r.panic # "none"
    THEN [rest |-> popped, tmp |-> tmp, panic |-> r.panic]
    ELSE write_pop_loop(popped, tmp \o r.solved, span, dbg)

write_pop_loop(spans, tmp, span, dbg) ==
    IF spans = <<>> THEN [rest |-> <<>>, tmp |-> tmp, panic |-> "none"]
    ELSE write_pop_step(SubSeq(spans, 1, Len(spans) - 1), tmp, span, dbg,
                        resolve_conflict(spans[Len(spans)], span, dbg))

\* `for elem in tmp { if !elem.is_empty() { self.push_span(elem) } }`
RECURSIVE push_non_empty(_, _)
push_non_empty(l, tmp) ==
    IF tmp = <<>> THEN l
    ELSE push_non_empty(IF is_empty(Head(tmp)) THEN l ELSE push_span(l, Head(tmp)),
                        Tail(tmp))

\* Vec::retain(|s| !s.is_empty())
retain_non_empty(spans) == SelectSeq(spans, LAMBDA s : ~is_empty(s))

\* the end of push_span_write: its assertion, then `self.push_span(span)`
write_push(refilled, span, dbg) ==
    IF dbg /\ \E i \in 1..Len(refilled.spans) :
                  is_conflict(refilled.spans[i], span)
    THEN [layer |-> refilled, panic |-> "Layer::push_span_write impl error"]
    ELSE [layer |-> push_span(refilled, span), panic |-> "none"]

\* push_span_write after the pop loop, `popped` being what the loop left
write_refill(l, span, dbg, popped) ==
    IF popped.panic # "none"
    THEN [layer |-> [l EXCEPT !.spans = popped.rest], panic |-> popped.panic]
    ELSE write_push(push_non_empty([l EXCEPT !.spans = <<>>], popped.tmp),
                    span, dbg)

\* Layer::push_span_write after its `if span.is_empty() { return; }`
push_span_write_body(l, span, dbg) ==
    write_refill(l, span, dbg, write_pop_loop(l.spans, <<>>, span, dbg))

\* push_span_write without its guard against an empty run
push_span_write_unguarded(l, span, dbg) == push_span_write_body(l, span, dbg)

\* Layer::push_span_write: [layer, panic]
push_span_write(l, span, dbg) ==
    IF is_empty(span) THEN [layer |-> l, panic |-> "none"]
    ELSE push_span_write_body(l, span, dbg)

\* `for i_span in conflicts.iter() { tmp_deque.extend(resolve_conflict(..)) }`
RECURSIVE fixed_extend(_, _, _, _)

\* a turn that puts the popped element back behind its fragments
fixed_extend_step_requeued(tmp_deque, tmp_elem, conflicts, dbg, r) ==
    IF r.panic # "none"
    THEN [deque |-> tmp_deque, panic |-> r.panic]
    ELSE fixed_extend(tmp_deque \o r.solved \o <<tmp_elem>>, tmp_elem,
                      Tail(conflicts), dbg)

\* one turn of that loop, `r` being resolve_conflict(tmp_elem.clone(), i_span)
fixed_extend_step(tmp_deque, tmp_elem, conflicts, dbg, r) ==
    IF r.panic # "none"
    THEN [deque |-> tmp_deque, panic |-> r.panic]
    ELSE fixed_extend(tmp_deque \o r.solved, tmp_elem, Tail(conflicts), dbg)

fixed_extend(tmp_deque, tmp_elem, conflicts, dbg) ==
    IF conflicts = <<>> THEN [deque |-> tmp_deque, panic |-> "none"]
    ELSE fixed_extend_step(tmp_deque, tmp_elem, conflicts, dbg,
             resolve_conflict(tmp_elem, Head(conflicts), dbg))

\* the work-queue loop of push_span_fixed: [tmp, deque, panic]
RECURSIVE fixed_loop(_, _, _, _)

\* the loop after its `for`, `ext` being the queue the `for` left
fixed_requeue(tmp, spans, dbg, ext) ==
    IF ext.panic # "none"
    THEN [tmp |-> tmp, deque |-> ext.deque, panic |-> ext.panic]
    ELSE fixed_loop(ext.deque, tmp, spans, dbg)

\* one turn of the loop, `conflicts` being the stored runs of the row that
\* conflict with the popped tmp_elem
fixed_turn(tmp_deque, tmp, spans, dbg, conflicts) ==
    IF conflicts = <<>>
    THEN fixed_loop(Tail(tmp_deque), Append(tmp, Head(tmp_deque)), spans, dbg)
    ELSE fixed_requeue(tmp, spans, dbg,
             fixed_extend(Tail(tmp_deque), Head(tmp_deque), conflicts, dbg))

fixed_loop(tmp_deque, tmp, spans, dbg) ==
    IF tmp_deque = <<>>
    THEN [tmp |-> tmp, deque |-> tmp_deque, panic |-> "none"]
    ELSE fixed_turn(tmp_deque, tmp, spans, dbg,
             SelectSeq(spans, LAMBDA s : is_conflict(s, Head(tmp_deque))))

\* one turn of the work-queue loop taken alone: the queue and the fragments
\* kept after tmp_elem was popped and handled, `conflicts` being the stored
\* runs of the row that conflict with it: [tmp, deque, panic]
fixed_pop_turn(tmp_deque, tmp, dbg, conflicts) ==
    IF conflicts = <<>>
    THEN [tmp |-> Append(tmp, Head(tmp_deque)), deque |-> Tail(tmp_deque),
          panic |-> "none"]
    ELSE [tmp |-> tmp,
          deque |-> fixed_extend(Tail(tmp_deque), Head(tmp_deque), conflicts,
                                 dbg).deque,
          panic |-> fixed_extend(Tail(tmp_deque), Head(tmp_deque), conflicts,
                                 dbg).panic]

fixed_pop(tmp_deque, tmp, spans, dbg) ==
    fixed_pop_turn(tmp_deque, tmp, dbg,
        SelectSeq(spans, LAMBDA s : is_conflict(s, Head(tmp_deque))))

\* push_span_fixed after the loop, `done` being what the loop left
fixed_store(l, dbg, done) ==
    IF done.panic # "none"
    THEN [layer |-> l, panic |-> done.panic]
    ELSE IF dbg /\ done.deque # <<>>
    THEN [layer |-> l, panic |-> "Layer::push_span_fixed impl error"]
    ELSE [layer |-> push_non_empty(
                        [l EXCEPT !.spans = retain_non_empty(l.spans)],
                        done.tmp),
          panic |-> "none"]

\* Layer::push_span_fixed: [layer, panic]
push_span_fixed(l, span, dbg) ==
    IF is_empty(span) THEN [layer |-> l, panic |-> "none"]
    ELSE fixed_store(l, dbg,
             fixed_loop(<<span>>, <<>>,
                 SelectSeq(l.spans,
                     LAMBDA s : base_pos(s)[2] = base_pos(span)[2]),
                 dbg))

\* push_span_only_valid rejecting only a run that conflicts with every stored
\* run (`all` for `any`)
push_span_only_valid_all(l, span, dbg) ==
    IF is_empty(span)
       \/ \A i \in 1..Len(l.spans) : is_conflict(l.spans[i], span)
    THEN [layer |-> l, panic |-> "none"]
    ELSE [layer |-> push_span([l EXCEPT !.spans = retain_non_empty(l.spans)],
                              span),
          panic |-> "none"]

\* Layer::push_span_only_valid: [layer, panic]
push_span_only_valid(l, span, dbg) ==
    IF is_empty(span)
       \/ \E i \in 1..Len(l.spans) : is_conflict(l.spans[i], span)
    THEN [layer |-> l, panic |-> "none"]
    ELSE [layer |-> push_span([l EXCEPT !.spans = retain_non_empty(l.spans)],
                              span),
          panic |-> "none"]

\* a rebase closure that forgets the row: `*x += offset.0` alone
rebase_add_column_only(a, offset) ==
    [a EXCEPT !.base_x = a.base_x + offset[1]]

\* Annot::rebase with the closure of add_offset
rebase_add(a, offset) ==
    [a EXCEPT !.base_x = a.base_x + offset[1], !.base_y = a.base_y + offset[2]]

\* Layer::add_offset
add_offset(l, offset) ==
    [width |-> l.width + offset[1],
     height |-> l.height + offset[2],
     spans |-> [i \in 1..Len(l.spans) |-> rebase_add(l.spans[i], offset)]]

\* Vec::swap_remove(pos), pos 1-based here
swap_remove(spans, pos) ==
    LET n == Len(spans)
    IN  [i \in 1..(n - 1) |-> IF i = pos THEN spans[n] ELSE spans[i]]

\* Iterator::position(f) for the closure |s| s == target: 0 stands for None
position_eq(spans, target) ==
    IF \E i \in 1..Len(spans) : spans[i] = target
    THEN CHOOSE i \in 1..Len(spans) :
             /\ spans[i] = target
             /\ \A k \in 1..(i - 1) : spans[k] # target
    ELSE 0

\* take_with after `position`, pos = 0 standing for None
take_at(l, pos) ==
    IF pos = 0 THEN [layer |-> l, taken |-> None]
    ELSE [layer |-> [l EXCEPT !.spans = swap_remove(l.spans, pos)],
          taken |-> Some(l.spans[pos])]

\* Layer::take_with(|s| s == target): [layer, taken]
take_with(l, target) == take_at(l, position_eq(l.spans, target))

\* `for i_span in init_spans { new_layer.push_span(i_span) }` of overlap
RECURSIVE overlap_init(_, _)
overlap_init(new_layer, init_spans) ==
    IF init_spans = <<>> THEN new_layer
    ELSE overlap_init(push_span(new_layer, Head(init_spans)), Tail(init_spans))

\* `overlap_span.into_inner().annotate((upper_x + rel_x, upper_y + rel_y))`
overlap_moved(overlap_span, upper_x, upper_y) ==
    annotate(overlap_span.inner,
             <<upper_x + base_pos(overlap_span)[1],
               upper_y + base_pos(overlap_span)[2]>>)

\* `for overlap_span in upper.into_inner().spans` of overlap: [layer, panic]
RECURSIVE overlap_loop(_, _, _, _, _)

\* one turn of that loop, `r` being what push_span_write left
overlap_turn(spans, upper_x, upper_y, dbg, r) ==
    IF r.panic # "none" THEN r
    ELSE overlap_loop(r.layer, Tail(spans), upper_x, upper_y, dbg)

overlap_loop(new_layer, spans, upper_x, upper_y, dbg) ==
    IF spans = <<>> THEN [layer |-> new_layer, panic |-> "none"]
    ELSE overlap_turn(spans, upper_x, upper_y, dbg,
             push_span_write(new_layer,
                             overlap_moved(Head(spans), upper_x, upper_y),
                             dbg))

\* the end of overlap: `new_layer.annotate((min, min))`; [layer, panic], the
\* layer being the Annot<Layer> returned (or what was built when it aborted)
overlap_annotate(self_root, upper, done) ==
    [layer |-> annotate(done.layer,
                        <<Min(self_root[1], base_pos(upper)[1]),
                          Min(self_root[2], base_pos(upper)[2])>>),
     panic |-> done.panic]

\* Layer::overlap(&self, self_root, upper: Annot<Layer>)
overlap(self, self_root, upper, dbg) ==
    overlap_annotate(self_root, upper,
        overlap_loop(overlap_init(LayerDefault, self.spans),
                     upper.inner.spans,
                     base_pos(upper)[1], base_pos(upper)[2], dbg))

\* ---- Canvas (canvas.rs) ---------------------------------------------------
\* layers is the BTreeMap, a function from the z-indices in use
CanvasDefault == [front |-> 0, width |-> 0, height |-> 0, layers |-> <<>>]

\* BTreeMap::insert
map_insert(layers, z_index, value) ==
    [z \in DOMAIN layers \cup {z_index} |->
        IF z = z_index THEN value ELSE layers[z]]

\* apply_layer leaving `front` as it was
apply_layer_front_kept(self, z_index, a_layer) ==
    [front |-> self.front,
     width |-> Max(self.width, base_pos(a_layer)[1] + width(a_layer)),
     height |-> Max(self.height, base_pos(a_layer)[2] + height(a_layer)),
     layers |-> map_insert(self.layers, z_index, a_layer)]

\* apply_layer growing the cached size by the layer's size without its base
apply_layer_base_dropped(self, z_index, a_layer) ==
    [front |-> Max(self.front, z_index + 1),
     width |-> Max(self.width, width(a_layer)),
     height |-> Max(self.height, height(a_layer)),
     layers |-> map_insert(self.layers, z_index, a_layer)]

\* Canvas::apply_layer
apply_layer(self, z_index, a_layer) ==
    [front |-> Max(self.front, z_index + 1),
     width |-> Max(self.width, base_pos(a_layer)[1] + width(a_layer)),
     height |-> Max(self.height, base_pos(a_layer)[2] + height(a_layer)),
     layers |-> map_insert(self.layers, z_index, a_layer)]

\* Canvas::overlap_layer
overlap_layer(self, a_layer) == apply_layer(self, self.front, a_layer)

\* Canvas::insert
canvas_insert(self, z_index, a_layer) == apply_layer(self, z_index, a_layer)

\* the end of merge, `merged` being what Layer::overlap returned: [self, panic]
merge_apply(self, z_index, merged) ==
    IF merged.panic # "none" THEN [canvas |-> self, panic |-> merged.panic]
    ELSE [canvas |-> apply_layer(self, z_index, merged.layer),
          panic |-> "none"]

\* Canvas::merge: [self, panic]
merge(self, z_index, new_layer, dbg) ==
    IF z_index \notin DOMAIN self.layers
    THEN [canvas |-> self, panic |-> "none"]
    ELSE merge_apply(self, z_index,
             overlap(self.layers[z_index].inner,
                     base_pos(self.layers[z_index]), new_layer, dbg))

\* Canvas::insert_or_merge: [self, panic]
insert_or_merge(self, z_index, a_layer, dbg) ==
    IF z_index \in DOMAIN self.layers
    THEN merge(self, z_index, a_layer, dbg)
    ELSE [canvas |-> canvas_insert(self, z_index, a_layer), panic |-> "none"]

\* ---- View and Window (view.rs, window.rs) ---------------------------------
\* View::new
view_new(w, h, cells) == [width |-> w, height |-> h, cells |-> cells]

\* the keys of a BTreeMap in the order its iterator yields them
RECURSIVE map_keys(_)
map_keys(zs) ==
    IF zs = {} THEN <<>>
    ELSE <<CHOOSE z \in zs : \A o \in zs : z <= o>>
         \o map_keys(zs \ {CHOOSE z \in zs : \A o \in zs : z <= o})

\* the number of values of a u16
U16Modulus == 65536

\* `a + b` on u16: [val, panic]; an overflow panics where overflow checks
\* are compiled in (they follow debug_assertions) and wraps elsewhere
u16_add(a, b, dbg) ==
    IF a + b < U16Modulus THEN [val |-> a + b, panic |-> "none"]
    ELSE IF dbg THEN [val |-> 0, panic |-> "attempt to add with overflow"]
    ELSE [val |-> (a + b) % U16Modulus, panic |-> "none"]

\* `a * b` on u16: [val, panic], overflow treated as in u16_add
u16_mul(a, b, dbg) ==
    IF a * b < U16Modulus THEN [val |-> a * b, panic |-> "none"]
    ELSE IF dbg THEN [val |-> 0, panic |-> "attempt to multiply with overflow"]
    ELSE [val |-> (a * b) % U16Modulus, panic |-> "none"]

\* the abort of the first of the computations, done one after another, that
\* aborts
first_panic(panics) ==
    IF \A i \in DOMAIN panics : panics[i] = "none" THEN "none"
    ELSE panics[CHOOSE i \in DOMAIN panics :
                    /\ panics[i] # "none"
                    /\ \A j \in 1..(i - 1) : panics[j] = "none"]

\* the range of the grid create_view writes a run to, all of it computed in
\* u16: `(span_x, span_y) = (span_x + layer_offset_x, span_y +
\* layer_offset_y)`, `line_pad = span_y * self.width`, and the bounds
\* `span_x + line_pad` and `span_x + span.width() + line_pad`:
\* [begin, end, panic]
view_range(span, offset_x, offset_y, canvas_width, dbg) ==
    LET span_x == u16_add(base_pos(span)[1], offset_x, dbg)
        span_y == u16_add(base_pos(span)[2], offset_y, dbg)
        line_pad == u16_mul(span_y.val, canvas_width, dbg)
        begin == u16_add(span_x.val, line_pad.val, dbg)
        apex == u16_add(span_x.val, width(span), dbg)
        end == u16_add(apex.val, line_pad.val, dbg)
    IN  [begin |-> begin.val,
         end |-> end.val,
         panic |-> first_panic(<<span_x.panic, span_y.panic, line_pad.panic,
                                 begin.panic, apex.panic, end.panic>>)]

\* `replace_slice.copy_from_slice(&cells)` on view[range.begin..range.end],
\* 0-based half-open: [view, panic]
copy_into(view, range, cells) ==
    IF range.panic # "none" THEN [view |-> view, panic |-> range.panic]
    ELSE IF range.begin > Len(view)
    THEN [view |-> view, panic |-> "range start index out of range"]
    ELSE IF range.begin > range.end
    THEN [view |-> view, panic |-> "slice index starts after its end"]
    ELSE IF range.end > Len(view)
    THEN [view |-> view, panic |-> "range end index out of range"]
    ELSE IF range.end - range.begin # Len(cells)
    THEN [view |-> view, panic |-> "copy_from_slice length mismatch"]
    ELSE [view |-> [i \in 1..Len(view) |->
                       IF i > range.begin /\ i <= range.end
                       THEN cells[i - range.begin]
                       ELSE view[i]],
          panic |-> "none"]

\* `for span in layer_spans.iter()` of create_view: [view, panic]
RECURSIVE view_spans_loop(_, _, _, _, _, _)

view_spans_turn(canvas_width, offset_x, offset_y, spans, dbg, r) ==
    IF r.panic # "none" THEN r
    ELSE view_spans_loop(r.view, canvas_width, offset_x, offset_y, Tail(spans),
                         dbg)

view_spans_loop(view, canvas_width, offset_x, offset_y, spans, dbg) ==
    IF spans = <<>> THEN [view |-> view, panic |-> "none"]
    ELSE view_spans_turn(canvas_width, offset_x, offset_y, spans, dbg,
             copy_into(view,
                 view_range(Head(spans), offset_x, offset_y, canvas_width,
                            dbg),
                 [i \in 1..Len(span_to_vec(Head(spans).inner)) |->
                     Some(span_to_vec(Head(spans).inner)[i])]))

\* `for (_, layer) in self.layers.iter()` of create_view: [view, panic]
RECURSIVE view_layers_loop(_, _, _, _)

view_layers_turn(self, keys, dbg, r) ==
    IF r.panic # "none" THEN r
    ELSE view_layers_loop(r.view, self, Tail(keys), dbg)

view_layers_loop(view, self, keys, dbg) ==
    IF keys = <<>> THEN [view |-> view, panic |-> "none"]
    ELSE view_layers_turn(self, keys, dbg,
             view_spans_loop(view, self.width,
                 base_pos(self.layers[Head(keys)])[1],
                 base_pos(self.layers[Head(keys)])[2],
                 self.layers[Head(keys)].inner.spans, dbg))

\* the end of create_view: `View::new(self.width, self.height, view)`
view_of(self, done) ==
    [view |-> view_new(self.width, self.height, done.view),
     panic |-> done.panic]

\* Canvas::create_view: [view, panic]; the grid is allocated with a usize
\* product, `dbg` is cfg!(debug_assertions)
create_view(self, dbg) ==
    view_of(self,
        view_layers_loop([i \in 1..(self.height * self.width) |-> None],
                         self, map_keys(DOMAIN self.layers), dbg))

\* Window::new
window_new(w, h) == [width |-> w, height |-> h, views |-> <<>>]

\* Window::resize
window_resize(self, w, h) == [self EXCEPT !.width = w, !.height = h]

\* Window::overlap
window_overlap(self, view) == [self EXCEPT !.views = Append(self.views, view)]

\* VTerm::new
vterm_new(w, h, cells) == [width |-> w, height |-> h, cells |-> cells]

\* u16::saturating_sub
saturating_sub(a, b) == IF a > b THEN a - b ELSE 0

\* `a - b` on u16: [val, panic]; an overflow panics where overflow checks
\* are compiled in (they follow debug_assertions) and wraps elsewhere
u16_sub(a, b, dbg) ==
    IF a >= b THEN [val |-> a - b, panic |-> "none"]
    ELSE IF dbg THEN [val |-> 0, panic |-> "attempt to subtract with overflow"]
    ELSE [val |-> a - b + U16Modulus, panic |-> "none"]

\* `&cells[begin..end]`, 0-based half-open: [slice, panic]; the start of the
\* range is checked against the length first
slice_range(cells, begin, end) ==
    IF begin > Len(cells)
    THEN [slice |-> <<>>, panic |-> "range start index out of range"]
    ELSE IF begin > end
    THEN [slice |-> <<>>, panic |-> "slice index starts after its end"]
    ELSE IF end > Len(cells)
    THEN [slice |-> <<>>, panic |-> "range end index out of range"]
    ELSE [slice |-> SubSeq(cells, begin + 1, end), panic |-> "none"]

\* View::get_line: [slice, panic]; `self.width * rows` and
\* `self.width * (rows + 1)` are u16 products (rows + 1 is at most the
\* height, a u16)
get_line(view, rows, dbg) ==
    LET start == u16_mul(view.width, rows, dbg)
        end == u16_mul(view.width, rows + 1, dbg)
    IN  IF rows >= view.height THEN [slice |-> <<>>, panic |-> "none"]
        ELSE IF first_panic(<<start.panic, end.panic>>) # "none"
        THEN [slice |-> <<>>,
              panic |-> first_panic(<<start.panic, end.panic>>)]
        ELSE slice_range(view.cells, start.val, end.val)

\* `(window_width * (view_offset_y + rel_y)) as usize + view_offset_x`, the
\* sum of the rows and the product taken in u16: [val, panic]
row_dst_begin(window_width, view_offset_x, view_offset_y, rel_y, dbg) ==
    LET row == u16_add(view_offset_y, rel_y, dbg)
        pad == u16_mul(window_width, row.val, dbg)
    IN  [val |-> pad.val + view_offset_x,
         panic |-> first_panic(<<row.panic, pad.panic>>)]

\* `dst.copy_from_slice(src)` with dst = holder[dst_begin..dst_begin + len]:
\* [holder, panic]
copy_row(holder, dst_begin, drawable_width, src) ==
    IF src.panic # "none" THEN [holder |-> holder, panic |-> src.panic]
    ELSE IF dst_begin.panic # "none"
    THEN [holder |-> holder, panic |-> dst_begin.panic]
    ELSE IF dst_begin.val > Len(holder)
    THEN [holder |-> holder, panic |-> "range start index out of range"]
    ELSE IF dst_begin.val + drawable_width > Len(holder)
    THEN [holder |-> holder, panic |-> "range end index out of range"]
    ELSE [holder |-> [i \in 1..Len(holder) |->
                         IF i > dst_begin.val
                             /\ i <= dst_begin.val + drawable_width
                         THEN src.slice[i - dst_begin.val]
                         ELSE holder[i]],
          panic |-> "none"]

\* `&line[view_offset_x..(view_offset_x + drawable_width)]`: [slice, panic]
row_src(line, view_offset_x, drawable_width) ==
    IF line.panic # "none" THEN line
    ELSE slice_range(line.slice, view_offset_x, view_offset_x + drawable_width)

\* `for rel_y in 0..drawable_height` of create_virtual_terminal:
\* [holder, panic]
RECURSIVE rows_loop(_, _, _, _, _, _, _)

rows_turn(view, drawable_width, drawable_height, rel_y, win_width, dbg, r) ==
    IF r.panic # "none" THEN r
    ELSE rows_loop(r.holder, view, drawable_width, drawable_height, rel_y + 1,
                   win_width, dbg)

rows_loop(holder, view, drawable_width, drawable_height, rel_y, win_width, dbg) ==
    IF rel_y >= drawable_height THEN [holder |-> holder, panic |-> "none"]
    ELSE rows_turn(view, drawable_width, drawable_height, rel_y, win_width,
             dbg,
             copy_row(holder,
                      row_dst_begin(win_width, base_pos(view)[1],
                                    base_pos(view)[2], rel_y, dbg),
                      drawable_width,
                      row_src(get_line(view.inner, rel_y, dbg),
                              base_pos(view)[1], drawable_width)))

\* one view of the queue, its drawable size computed: [holder, panic]
view_turn(holder, view, window_width, dbg, drawable_width, drawable_height) ==
    IF drawable_height.panic # "none"
    THEN [holder |-> holder, panic |-> drawable_height.panic]
    ELSE IF drawable_width = 0 \/ drawable_height.val = 0
    THEN [holder |-> holder, panic |-> "none"]
    ELSE rows_loop(holder, view, drawable_width, drawable_height.val, 0,
                   window_width, dbg)

\* `while let Some(view) = window.views.pop_front()`: [holder, panic]
RECURSIVE views_loop(_, _, _, _, _)

views_turn(views, window_width, window_height, dbg, r) ==
    IF r.panic # "none" THEN r
    ELSE views_loop(r.holder, Tail(views), window_width, window_height, dbg)

views_loop(holder, views, window_width, window_height, dbg) ==
    IF views = <<>> THEN [holder |-> holder, panic |-> "none"]
    ELSE views_turn(views, window_width, window_height, dbg,
             view_turn(holder, Head(views), window_width, dbg,
                 Min(window_width,
                     saturating_sub(width(Head(views)),
                                    base_pos(Head(views))[1])),
                 u16_sub(window_height, base_pos(Head(views))[2], dbg)))

\* the end of create_virtual_terminal: [vterm, panic]
vterm_of(win, done) ==
    [vterm |-> annotate(vterm_new(win.inner.width, win.inner.height,
                                  done.holder),
                        base_pos(win)),
     panic |-> done.panic]

\* the queue of views in the order pop_front yields them
views_queue(views) == views

\* create_virtual_terminal from `vec![None; (window_width * window_height)
\* as usize]` on, `size` being the u16 product: [vterm, panic]
holder_filled(win, dbg, size) ==
    IF size.panic # "none"
    THEN vterm_of(win, [holder |-> <<>>, panic |-> size.panic])
    ELSE vterm_of(win,
             views_loop([i \in 1..size.val |-> None],
                        views_queue(win.inner.views),
                        win.inner.width, win.inner.height, dbg))

\* create_virtual_terminal(window: Annot<Window>): [vterm, panic]
create_virtual_terminal(win, dbg) ==
    holder_filled(win, dbg, u16_mul(win.inner.width, win.inner.height, dbg))

\* ---- draw commands (draw.rs, window.rs) -----------------------------------
\* DrawableSpan::new
drawable_span_new(moveto, cells) == [moveto |-> moveto, span |-> cells]

\* u16::is_multiple_of
is_multiple_of(a, b) == IF b = 0 THEN a = 0 ELSE a % b = 0

\* `if !buffer.is_empty() { res.push(DrawableSpan::new((start_x, start_y),
\* mem::take(&mut buffer))) }`, st being [res, buffer, start_x, start_y, panic]
cmd_push(st) ==
    IF st.buffer = <<>> THEN st
    ELSE [st EXCEPT !.res = Append(@, drawable_span_new(
                                          <<st.start_x, st.start_y>>,
                                          st.buffer)),
                    !.buffer = <<>>]

\* the head of the loop body: at the first entry of a row the command in
\* progress is closed
row_break(st, i, term_width) ==
    IF is_multiple_of(i, term_width) THEN cmd_push(st) ELSE st

\* `if buffer.is_empty() { start_x = ..; start_y = ..; }` of the Some arm
buffer_start(st, i, term_width, rel_base_x, rel_base_y) ==
    IF st.buffer # <<>> THEN st
    ELSE IF term_width = 0
    THEN [st EXCEPT !.panic =
              "attempt to calculate the remainder with a divisor of zero"]
    ELSE [st EXCEPT !.start_x = rel_base_x + (i % term_width),
                    !.start_y = rel_base_y + (i \div term_width)]

\* `buffer.push(*cell)` of the Some arm
buffer_push(st, c) ==
    IF st.panic # "none" THEN st ELSE [st EXCEPT !.buffer = Append(@, c)]

\* `match cell { Some(cell) => .., None => .. }`
match_cell(st, i, entry, term_width, rel_base_x, rel_base_y) ==
    IF entry.some
    THEN buffer_push(buffer_start(st, i, term_width, rel_base_x, rel_base_y),
                     entry.val)
    ELSE cmd_push(st)

\* `i as u16`
as_u16(i) == i % U16Modulus

\* one turn of `for (i, cell) in vterm.iter().enumerate()`
spans_turn(st, i, entry, term_width, rel_base_x, rel_base_y) ==
    IF st.panic # "none" THEN st
    ELSE match_cell(row_break(st, as_u16(i), term_width), as_u16(i), entry,
                    term_width, rel_base_x, rel_base_y)

\* the turns lo .. hi - 1 of that loop, in their order: the first half, then
\* the second half on what the first left (so that the evaluation nests to
\* a depth logarithmic in the number of entries)
RECURSIVE spans_loop(_, _, _, _, _, _, _)
spans_loop(entries, lo, hi, term_width, rel_base_x, rel_base_y, st) ==
    IF st.panic # "none" \/ hi <= lo THEN st
    ELSE IF hi = lo + 1
    THEN spans_turn(st, lo, entries[lo + 1], term_width, rel_base_x,
                    rel_base_y)
    ELSE spans_loop(entries, (lo + hi) \div 2, hi, term_width, rel_base_x,
                    rel_base_y,
             spans_loop(entries, lo, (lo + hi) \div 2, term_width,
                        rel_base_x, rel_base_y, st))

\* the push after the loop, and what convert_to_spans returns: [res, panic]
spans_result(st) ==
    IF st.panic # "none" THEN [res |-> st.res, panic |-> st.panic]
    ELSE [res |-> cmd_push(st).res, panic |-> "none"]

\* convert_to_spans(vterm: Annot<VTerm>): [res, panic]
convert_to_spans(a_vterm) ==
    spans_result(
        spans_loop(a_vterm.inner.cells, 0, Len(a_vterm.inner.cells),
                   width(a_vterm),
                   base_pos(a_vterm)[1], base_pos(a_vterm)[2],
                   [res |-> <<>>, buffer |-> <<>>,
                    start_x |-> base_pos(a_vterm)[1],
                    start_y |-> base_pos(a_vterm)[2],
                    panic |-> "none"]))

\* ==== Spec: a Layer driven through its public API ==========================

\* the text of the run handed to the call number k (0-based): every call
\* brings cells no earlier call brought (prefixes of "abc", "efg", "ijk", ...)
Text(k, len) == [i \in 1..len |-> 96 + k * Cardinality(RunLens) + i]

\* Span::from(text).annotate((x, y))
NewRun(k, len, x, y) == annotate(span_from(Text(k, len)), <<x, y>>)

NoCallVars == <<conflictVars, splitVars, spanVars, overlapVars, canvasVars,
                windowVars, drawVars,
                fixedVars>>

\* the variables of the other specifications, at rest
IdleConflict ==
    /\ box_a = annotate(Rect(0, 0), <<0, 0>>)
    /\ box_b = annotate(Rect(0, 0), <<0, 0>>)
    /\ conflict = [called |-> FALSE]

IdleSplit ==
    /\ split_in = [span |-> SpanDefault, indecies |-> <<>>]
    /\ split_out = [called |-> FALSE]

IdleSpan ==
    /\ run = SpanDefault
    /\ run_source = SpanDefault
    /\ run_call = [op |-> "new", n |-> 0, panic |-> "none"]

IdleOverlap ==
    /\ below = LayerDefault
    /\ above = LayerDefault
    /\ overlapped = [called |-> FALSE]

IdleCanvas ==
    /\ canvas = CanvasDefault
    /\ canvas_call = [op |-> "new", n |-> 0, panic |-> "none"]

IdleWindow ==
    /\ window = annotate(window_new(0, 0), <<1, 2>>)
    /\ vterm = [called |-> FALSE]

IdleDraw ==
    /\ frame = annotate(vterm_new(0, 0, <<>>), <<0, 0>>)
    /\ drawn = [called |-> FALSE]

IdleFixed == fixed = [pc |-> "idle"]

InitOther ==
    /\ IdleConflict
    /\ IdleSplit
    /\ IdleSpan
    /\ IdleOverlap
    /\ IdleCanvas
    /\ IdleWindow
    /\ IdleDraw
    /\ IdleFixed

InitLayer ==
    /\ layer = LayerDefault
    /\ panic = "none"
    /\ ops = 0
    /\ call = [op |-> "new"]
    /\ pre = LayerDefault

Init ==
    /\ InitLayer
    /\ debug_assertions \in BOOLEAN
    /\ InitOther

CanCall == panic = "none" /\ ops < MaxOps

\* a push returned (or aborted) with r = [layer, panic]
Returned(op, span, r) ==
    /\ layer' = r.layer
    /\ panic' = r.panic
    /\ call' = [op |-> op, span |-> span]

\* the run take_with looks for: the stored run number p, or (p = 0) a run
\* the Layer does not store
Target(p) ==
    IF p = 0 THEN annotate(SpanDefault, <<0, 0>>) ELSE layer.spans[p]

\* take_with returned r = [layer, taken]
Taken(target, r) ==
    /\ layer' = r.layer
    /\ call' = [op |-> "take_with", target |-> target, taken |-> r.taken]

PushSpanWrite ==
    /\ CanCall
    /\ \E len \in RunLens, x \in RunCols, y \in RunRows :
        Returned("push_span_write", NewRun(ops, len, x, y),
                 push_span_write(layer, NewRun(ops, len, x, y), debug_assertions))
    /\ pre' = layer
    /\ ops' = ops + 1
    /\ UNCHANGED <<debug_assertions, NoCallVars>>

PushSpanFixed ==
    /\ CanCall
    /\ \E len \in RunLens, x \in RunCols, y \in RunRows :
        Returned("push_span_fixed", NewRun(ops, len, x, y),
                 push_span_fixed(layer, NewRun(ops, len, x, y), debug_assertions))
    /\ pre' = layer
    /\ ops' = ops + 1
    /\ UNCHANGED <<debug_assertions, NoCallVars>>

PushSpanOnlyValid ==
    /\ CanCall
    /\ \E len \in RunLens, x \in RunCols, y \in RunRows :
        Returned("push_span_only_valid", NewRun(ops, len, x, y),
                 push_span_only_valid(layer, NewRun(ops, len, x, y), debug_assertions))
    /\ pre' = layer
    /\ ops' = ops + 1
    /\ UNCHANGED <<debug_assertions, NoCallVars>>

AddOffset ==
    /\ CanCall
    /\ \E dx \in Offsets, dy \in Offsets :
        /\ layer' = add_offset(layer, <<dx, dy>>)
        /\ call' = [op |-> "add_offset", offset |-> <<dx, dy>>]
    /\ pre' = layer
    /\ ops' = ops + 1
    /\ UNCHANGED <<panic, debug_assertions, NoCallVars>>

\* take_with(|s| s == target) for a stored run, or for a run that is not stored
TakeWith ==
    /\ CanCall
    /\ \E p \in 0..Len(layer.spans) :
        Taken(Target(p), take_with(layer, Target(p)))
    /\ pre' = layer
    /\ ops' = ops + 1
    /\ UNCHANGED <<panic, debug_assertions, NoCallVars>>

Next ==
    \/ PushSpanWrite
    \/ PushSpanFixed
    \/ PushSpanOnlyValid
    \/ AddOffset
    \/ TakeWith

Spec == Init /\ [][Next]_vars

\* ==== properties of the Layer (checked under Spec) =========================

Range(seq) == {seq[i] : i \in 1..Len(seq)}

ConflictFree(spans) ==
    \A i, j \in 1..Len(spans) : i # j => ~is_conflict(spans[i], spans[j])

\* the grid cells of a placed run, by its base and the cells it holds
ColsOf(s) == s.base_x..(s.base_x + Len(s.inner.cells) - 1)
Covers(s, c, r) == s.base_y = r /\ c \in ColsOf(s)
CellOf(s, c) == s.inner.cells[c - s.base_x + 1]

\* the cells a collection of placed runs shows at column c, row r
Shown(spans, c, r) ==
    {CellOf(spans[i], c) : i \in {k \in 1..Len(spans) : Covers(spans[k], c, r)}}

\* every column and row touched before or after the last call
SeenCols == UNION {ColsOf(s) : s \in Range(pre.spans) \cup Range(layer.spans)
                                        \cup {call.span}}
SeenRows == {s.base_y : s \in Range(pre.spans) \cup Range(layer.spans)
                                \cup {call.span}}

IsPush == call.op \in {"push_span_write", "push_span_fixed",
                       "push_span_only_valid"}

\* C1: after any sequence of calls on a Layer that started empty, no two
\* stored runs conflict with each other.
C1_NoTwoStoredRunsConflict == ConflictFree(layer.spans)

\* C2: push_span_write of a non-empty run N on a conflict-free Layer returns
\* with N stored at its position with its cells, N in conflict with no other
\* stored run, and no two stored runs in conflict.
C2_WriteStoresNewRun ==
    (call.op = "push_span_write" /\ ~is_empty(call.span)
        /\ ConflictFree(pre.spans))
    => /\ panic = "none"
       /\ \E i \in 1..Len(layer.spans) :
            /\ layer.spans[i] = call.span
            /\ \A j \in 1..Len(layer.spans) :
                 j # i => ~is_conflict(layer.spans[j], call.span)
       /\ ConflictFree(layer.spans)

\* C3: push_span_write of a non-empty run N on a conflict-free Layer changes
\* only the cells under N: every position N covers shows N's cell, every other
\* position shows what it showed before, and no stored run is empty (a run N
\* covers completely leaves no fragment).
C3_WriteChangesOnlyCellsUnderNewRun ==
    (call.op = "push_span_write" /\ ~is_empty(call.span)
        /\ ConflictFree(pre.spans))
    => /\ panic = "none"
       /\ \A c \in SeenCols, r \in SeenRows :
            Shown(layer.spans, c, r) =
                IF Covers(call.span, c, r) THEN {CellOf(call.span, c)}
                ELSE Shown(pre.spans, c, r)
       /\ \A s \in Range(layer.spans) : ~is_empty(s)

\* C4: push_span_fixed of a non-empty run N on a conflict-free Layer leaves
\* every stored run as it was, and the runs it adds are pieces of N (N's cell
\* at each column) that together occupy exactly the columns of N that no
\* previously stored run of N's row covers.
C4_FixedFillsOnlyGaps ==
    (call.op = "push_span_fixed" /\ ~is_empty(call.span)
        /\ ConflictFree(pre.spans))
    => /\ panic = "none"
       /\ Len(layer.spans) >= Len(pre.spans)
       /\ SubSeq(layer.spans, 1, Len(pre.spans)) = pre.spans
       /\ LET added == {layer.spans[i] :
                            i \in (Len(pre.spans) + 1)..Len(layer.spans)}
          IN  /\ \A s \in added :
                    /\ ~is_empty(s)
                    /\ \A c \in ColsOf(s) :
                         /\ Covers(call.span, c, s.base_y)
                         /\ CellOf(s, c) = CellOf(call.span, c)
              /\ UNION {ColsOf(s) : s \in added} =
                    {c \in ColsOf(call.span) :
                        \A p \in Range(pre.spans) :
                            ~Covers(p, c, call.span.base_y)}

\* C5: push_span_only_valid of a non-empty run N leaves the Layer (runs,
\* width, height) unchanged when N conflicts with a stored run, and otherwise
\* stores the previous runs plus N with its position and cells.
C5_OnlyValidRejectsOrAdds ==
    (call.op = "push_span_only_valid" /\ ~is_empty(call.span))
    => /\ panic = "none"
       /\ IF \E p \in Range(pre.spans) : is_conflict(p, call.span)
          THEN layer = pre
          ELSE layer.spans = Append(pre.spans, call.span)

\* C5 witness: a non-empty run that conflicts with a stored run was handed to
\* push_span_only_valid.
C5_Witness ==
    /\ call.op = "push_span_only_valid"
    /\ ~is_empty(call.span)
    /\ \E p \in Range(pre.spans) : is_conflict(p, call.span)
    /\ layer = pre

\* C6: the three pushes return normally: no assertion of the Layer aborts.
C6_PushesNeverAbort == panic = "none"

\* C7: each of the three pushes, handed an empty run, leaves the stored runs,
\* the width and the height as they were, wherever the run is placed.
C7_EmptyRunIsNoOp ==
    (IsPush /\ is_empty(call.span)) => (layer = pre /\ panic = "none")

\* C7 witness: push_span_write was handed an empty run placed away from the
\* origin, on a Layer that stores runs.
C7_Witness ==
    /\ call.op = "push_span_write"
    /\ is_empty(call.span)
    /\ base_pos(call.span) # <<0, 0>>
    /\ Len(pre.spans) >= 2
    /\ layer = pre

\* C25: add_offset((dx, dy)) moves every stored run from (x, y) to
\* (x + dx, y + dy) with its cells, keeps the number of runs, increases the
\* cached width by dx and the cached height by dy, and keeps a conflict-free
\* Layer conflict-free.
C25_AddOffsetMovesEveryRun ==
    (call.op = "add_offset")
    => /\ Len(layer.spans) = Len(pre.spans)
       /\ \A i \in 1..Len(pre.spans) :
            /\ layer.spans[i].base_x = pre.spans[i].base_x + call.offset[1]
            /\ layer.spans[i].base_y = pre.spans[i].base_y + call.offset[2]
            /\ layer.spans[i].inner = pre.spans[i].inner
       /\ layer.width = pre.width + call.offset[1]
       /\ layer.height = pre.height + call.offset[2]
       /\ (ConflictFree(pre.spans) => ConflictFree(layer.spans))

\* C25 witness: add_offset moved a Layer storing two runs, one of them away
\* from the origin, along both axes.
C25_Witness ==
    /\ call.op = "add_offset"
    /\ call.offset = <<1, 1>>
    /\ Len(pre.spans) >= 2
    /\ \E s \in Range(pre.spans) : base_pos(s) # <<0, 0>>
    /\ \A i \in 1..Len(pre.spans) :
         base_pos(layer.spans[i]) =
            <<pre.spans[i].base_x + 1, pre.spans[i].base_y + 1>>

\* the largest outer x and outer y of the runs a Layer stores (0 for none)
LargestOuterX(spans) ==
    IF spans = <<>> THEN 0
    ELSE CHOOSE m \in {outer_apex_pos(s)[1] : s \in Range(spans)} :
             \A s \in Range(spans) : outer_apex_pos(s)[1] <= m
LargestOuterY(spans) ==
    IF spans = <<>> THEN 0
    ELSE CHOOSE m \in {outer_apex_pos(s)[2] : s \in Range(spans)} :
             \A s \in Range(spans) : outer_apex_pos(s)[2] <= m

\* C26: over any sequence of push_span_write, push_span_fixed,
\* push_span_only_valid, add_offset and take_with, no call makes the cached
\* width or height smaller than it was before the call, and after every call
\* they are at least the largest outer x and outer y of the stored runs.
C26_CachedSizeNeverShrinksAndCoversRuns ==
    /\ layer.width >= pre.width
    /\ layer.height >= pre.height
    /\ layer.width >= LargestOuterX(layer.spans)
    /\ layer.height >= LargestOuterY(layer.spans)

\* C26 witness: a call removed or clipped runs so that the cached width is
\* larger than the stored runs need, after an earlier call had grown it.
C26_Witness ==
    /\ call.op \in {"take_with", "push_span_write"}
    /\ panic = "none"
    /\ pre.width >= 3
    /\ layer.width = pre.width
    /\ layer.width > LargestOuterX(layer.spans)

\* ==== SpecConflict: Annot::is_conflict on two positioned Rects =============

Boxes ==
    {annotate(Rect(w, h), <<x, y>>) :
        w \in 0..MaxSide, h \in 0..MaxSide, x \in 0..MaxCoord, y \in 0..MaxCoord}

InitConflict ==
    /\ InitLayer
    /\ debug_assertions = TRUE
    /\ box_a \in Boxes
    /\ box_b \in Boxes
    /\ conflict = [called |-> FALSE]
    /\ IdleSplit
    /\ IdleSpan
    /\ IdleOverlap
    /\ IdleCanvas
    /\ IdleWindow
    /\ IdleDraw
    /\ IdleFixed

CallIsConflict ==
    /\ ~conflict.called
    /\ conflict' = [called |-> TRUE,
                    ab |-> is_conflict(box_a, box_b),
                    ba |-> is_conflict(box_b, box_a)]
    /\ UNCHANGED <<layerVars, box_a, box_b, splitVars, spanVars, overlapVars,
                   canvasVars, windowVars, drawVars,
                fixedVars>>

NextConflict == CallIsConflict

SpecConflict == InitConflict /\ [][NextConflict]_vars

\* the grid cells of the half-open rectangle [x, x+w) x [y, y+h) of a box
BoxCells(b) ==
    {<<cx, cy>> \in (0..(MaxCoord + MaxSide)) \X (0..(MaxCoord + MaxSide)) :
        /\ b.base_x <= cx /\ cx < b.base_x + b.inner.rect_w
        /\ b.base_y <= cy /\ cy < b.base_y + b.inner.rect_h}

\* C8: is_conflict(a, b) is true exactly when the rectangles of a and b share
\* a grid cell (so both are non-empty); it gives the same answer both ways, is
\* false when either box has zero width or height, and is false for boxes
\* whose edges only touch.
C8_ConflictIffSharedCell ==
    conflict.called
    => /\ conflict.ab = (BoxCells(box_a) \cap BoxCells(box_b) # {})
       /\ conflict.ab = conflict.ba
       /\ (box_a.inner.rect_w = 0 \/ box_a.inner.rect_h = 0
            \/ box_b.inner.rect_w = 0 \/ box_b.inner.rect_h = 0)
          => ~conflict.ab
       /\ (box_a.base_x + box_a.inner.rect_w = box_b.base_x
            \/ box_a.base_y + box_a.inner.rect_h = box_b.base_y)
          => ~conflict.ab

\* C8 witness: is_conflict was applied to two non-empty boxes on overlapping
\* rows whose edges touch (a.outer_x = b.x), and answered false both ways.
C8_Witness ==
    /\ conflict.called
    /\ BoxCells(box_a) # {} /\ BoxCells(box_b) # {}
    /\ box_a.base_x + box_a.inner.rect_w = box_b.base_x
    /\ box_a.base_y = box_b.base_y
    /\ ~conflict.ab /\ ~conflict.ba

\* ==== SpecSplit: Span::split_by on a Span and a list of offsets ===========

\* offset lists, sorted or not, offsets up to two past the longest Span
OffsetLists ==
    UNION {[1..n -> 0..(MaxSplitLen + 2)] : n \in 0..MaxOffsets}

InitSplit ==
    /\ InitLayer
    /\ debug_assertions \in BOOLEAN
    /\ IdleConflict
    /\ IdleSpan
    /\ IdleOverlap
    /\ IdleCanvas
    /\ IdleWindow
    /\ IdleDraw
    /\ IdleFixed
    /\ \E len \in 0..MaxSplitLen, indecies \in OffsetLists :
        split_in = [span |-> span_from(Text(0, len)), indecies |-> indecies]
    /\ split_out = [called |-> FALSE]

\* split_by returned (or aborted) with r = [ret, panic]
SplitReturned(r) ==
    split_out' = [called |-> TRUE, parts |-> r.ret, panic |-> r.panic]

CallSplitBy ==
    /\ ~split_out.called
    /\ SplitReturned(split_by(split_in.span, split_in.indecies,
                              debug_assertions))
    /\ UNCHANGED <<layerVars, conflictVars, split_in, spanVars, overlapVars,
                   canvasVars, windowVars, drawVars,
                fixedVars>>

NextSplit == CallSplitBy

SpecSplit == InitSplit /\ [][NextSplit]_vars

\* the fragment the contract puts at entry i (1-based) of k + 1 entries: the
\* cells [offsets[i-1], offsets[i]) with 0 and the length as outer bounds, or
\* none when that slice is not inside the Span
ContractPart(span, indecies, i) ==
    LET n == Len(span.cells)
        lo == IF i = 1 THEN 0 ELSE indecies[i - 1]
        hi == IF i = Len(indecies) + 1 THEN n ELSE indecies[i]
    IN  IF lo <= hi /\ hi <= n
        THEN Some([len |-> hi - lo, cells |-> SubSeq(span.cells, lo + 1, hi)])
        ELSE None

\* C9: split_by with k sorted offsets returns exactly k + 1 entries, entry i
\* holding the cells [offsets[i-1], offsets[i]) when that slice is inside the
\* Span and none otherwise.
C9_SplitByReturnsKPlusOneParts ==
    (split_out.called /\ is_sorted(split_in.indecies))
    => /\ split_out.panic = "none"
       /\ Len(split_out.parts) = Len(split_in.indecies) + 1
       /\ \A i \in 1..Len(split_out.parts) :
            split_out.parts[i] =
                ContractPart(split_in.span, split_in.indecies, i)

\* Span::append of every fragment that is not none, in order, to an empty Span
RECURSIVE ConcatParts(_)
ConcatParts(parts) ==
    IF parts = <<>> THEN SpanDefault
    ELSE LET init == ConcatParts(SubSeq(parts, 1, Len(parts) - 1))
             last == parts[Len(parts)]
         IN  IF last.some THEN append_target(init, last.val) ELSE init

\* C10: for sorted offsets none of which exceeds the Span's length, appending
\* the fragments split_by returns, in order, gives back the Span: same cells,
\* same order, same length.
C10_SplitThenAppendRoundTrip ==
    (split_out.called
        /\ is_sorted(split_in.indecies)
        /\ \A i \in 1..Len(split_in.indecies) :
             split_in.indecies[i] <= split_in.span.len)
    => /\ split_out.panic = "none"
       /\ ConcatParts(split_out.parts) = split_in.span

\* ==== SpecSpan: a Span driven through its mutating API ====================

InitSpan ==
    /\ InitLayer
    /\ debug_assertions = TRUE
    /\ IdleConflict
    /\ IdleSplit
    /\ IdleOverlap
    /\ IdleCanvas
    /\ IdleWindow
    /\ IdleDraw
    /\ IdleFixed
    /\ \E a \in SpanLens, b \in SpanLens :
        /\ run = span_from(Text(0, a))
        /\ run_source = span_from(Text(1, b))
    /\ run_call = [op |-> "new", n |-> 0, panic |-> "none"]

NoSpanVars == <<layerVars, conflictVars, splitVars, overlapVars, canvasVars,
                windowVars, drawVars,
                fixedVars>>

CanCallSpan == run_call.panic = "none" /\ run_call.n < MaxSpanOps

\* the cells the call in progress brings: no earlier call brought them
NewCells(len) == [i \in 1..len |-> Cell(Text(run_call.n + 2, len)[i])]

\* a call on `run` that returns nothing
SpanCalled(op, arg, after) ==
    /\ run' = after
    /\ run_call' = [op |-> op, arg |-> arg, n |-> run_call.n + 1,
                    panic |-> "none", pre |-> run]
    /\ UNCHANGED run_source

\* a call on `run` that returns r.ret and leaves r.span
SpanReturned(op, arg, r) ==
    /\ run' = r.span
    /\ run_call' = [op |-> op, arg |-> arg, n |-> run_call.n + 1,
                    panic |-> "none", pre |-> run, ret |-> r.ret]
    /\ UNCHANGED run_source

\* a call on `run` that may abort: r = [span, panic]
SpanAborted(op, arg, r) ==
    /\ run' = r.span
    /\ run_call' = [op |-> op, arg |-> arg, n |-> run_call.n + 1,
                    panic |-> r.panic, pre |-> run]
    /\ UNCHANGED run_source

PushBack ==
    /\ CanCallSpan
    /\ SpanCalled("push_back", NewCells(1)[1],
                  span_push_back(run, NewCells(1)[1]))
    /\ UNCHANGED NoSpanVars

PushFront ==
    /\ CanCallSpan
    /\ SpanCalled("push_front", NewCells(1)[1],
                  span_push_front(run, NewCells(1)[1]))
    /\ UNCHANGED NoSpanVars

PopBack ==
    /\ CanCallSpan
    /\ SpanReturned("pop_back", 0, span_pop_back(run))
    /\ UNCHANGED NoSpanVars

PopFront ==
    /\ CanCallSpan
    /\ SpanReturned("pop_front", 0, span_pop_front(run))
    /\ UNCHANGED NoSpanVars

TruncateFront ==
    /\ CanCallSpan
    /\ \E num \in TruncNums :
        SpanAborted("truncate_front", num, truncate_front(run, num))
    /\ UNCHANGED NoSpanVars

TruncateBack ==
    /\ CanCallSpan
    /\ \E num \in TruncNums :
        SpanCalled("truncate_back", num, truncate_back(run, num))
    /\ UNCHANGED NoSpanVars

\* run.append(&mut run_source)
AppendSource ==
    /\ CanCallSpan
    /\ run' = append_target(run, run_source)
    /\ run_source' = append_source(run_source)
    /\ run_call' = [op |-> "append", arg |-> run_source, n |-> run_call.n + 1,
                    panic |-> "none", pre |-> run]
    /\ UNCHANGED NoSpanVars

\* run_source.append(&mut run)
AppendToSource ==
    /\ CanCallSpan
    /\ run_source' = append_target(run_source, run)
    /\ run' = append_source(run)
    /\ run_call' = [op |-> "append_to_source", arg |-> run_source,
                    n |-> run_call.n + 1, panic |-> "none", pre |-> run]
    /\ UNCHANGED NoSpanVars

Extend ==
    /\ CanCallSpan
    /\ \E len \in SpanLens :
        SpanCalled("extend", NewCells(len), span_extend(run, NewCells(len)))
    /\ UNCHANGED NoSpanVars

ReplaceAt ==
    /\ CanCallSpan
    /\ \E idx \in ReplaceIdx :
        SpanReturned("replace_at", idx, replace_at(run, idx, NewCells(1)[1]))
    /\ UNCHANGED NoSpanVars

\* run.push_all(run_source.clone())
PushAll ==
    /\ CanCallSpan
    /\ SpanCalled("push_all", run_source, push_all(run, run_source))
    /\ UNCHANGED NoSpanVars

\* if let Some(c) = run.get_mut(idx) { *c = cell }
GetMut ==
    /\ CanCallSpan
    /\ \E idx \in ReplaceIdx :
        SpanReturned("get_mut", idx, get_mut(run, idx, NewCells(1)[1]))
    /\ UNCHANGED NoSpanVars

NextSpan ==
    \/ PushBack
    \/ PushFront
    \/ PopBack
    \/ PopFront
    \/ TruncateFront
    \/ TruncateBack
    \/ AppendSource
    \/ AppendToSource
    \/ Extend
    \/ ReplaceAt
    \/ PushAll
    \/ GetMut

SpecSpan == InitSpan /\ [][NextSpan]_vars

\* the last `k` cells of a Span, and its first `k` cells, as Spans
LastCells(span, k) ==
    [len |-> k,
     cells |-> SubSeq(span.cells, Len(span.cells) - k + 1, Len(span.cells))]
FirstCells(span, k) == [len |-> k, cells |-> SubSeq(span.cells, 1, k)]

\* C11: truncate_front(n) leaves the Run equal to its last L-n cells and
\* truncate_back(n) leaves it equal to its first L-n cells when n <= L; when
\* n > L each of them completes and leaves an empty Run (length 0, no cells).
C11_TruncateDropsFromTheGivenEnd ==
    /\ run_call.op = "truncate_front"
        => /\ run_call.panic = "none"
           /\ run = LastCells(run_call.pre,
                              Max(run_call.pre.len, run_call.arg) - run_call.arg)
    /\ run_call.op = "truncate_back"
        => /\ run_call.panic = "none"
           /\ run = FirstCells(run_call.pre,
                               Max(run_call.pre.len, run_call.arg) - run_call.arg)

\* C12: after T.append(S) the target T holds its previous cells followed by
\* S's previous cells in order, and the source S is drained: it has length 0
\* and holds no cells.
C12_AppendMovesCellsAndDrainsSource ==
    run_call.op = "append"
    => /\ run.cells = run_call.pre.cells \o run_call.arg.cells
       /\ run.len = Len(run.cells)
       /\ run_source = SpanDefault

\* C13: after any sequence of Span calls the tracked length equals the number
\* of cells held, for the Span and for the Span used as append's source; and
\* pop_back / pop_front on an empty Span return none and leave it empty with
\* length 0.
C13_LengthTracksCells ==
    /\ run.len = Len(run.cells)
    /\ run_source.len = Len(run_source.cells)
    /\ (run_call.op \in {"pop_back", "pop_front"} /\ run_call.pre.cells = <<>>)
        => (~run_call.ret.some /\ run = SpanDefault)

\* C13 witness: a third call that popped an empty Span, and a Span that was
\* the source of an append and is then the target of one
C13_Witness ==
    /\ run_call.n = 3
    /\ run_call.op \in {"pop_back", "pop_front"}
    /\ run_call.pre.cells = <<>>
    /\ run_source.len > 0

\* ==== SpecOverlap: Layer::overlap on two conflict-free Layers ==============

InitOverlap ==
    /\ InitLayer
    /\ debug_assertions \in BOOLEAN
    /\ IdleConflict
    /\ IdleSplit
    /\ IdleSpan
    /\ IdleOverlap
    /\ IdleCanvas
    /\ IdleWindow
    /\ IdleDraw
    /\ IdleFixed

NoOverlapVars == <<layerVars, conflictVars, splitVars, spanVars, canvasVars,
                   windowVars, drawVars,
                fixedVars>>

\* below.push_span_only_valid(run): the runs of `below` are prefixes of
\* "abc" and "efg", those of `above` prefixes of "ijk" and "mno"
PushBelow ==
    /\ ~overlapped.called
    /\ Len(below.spans) < MaxLayerRuns
    /\ \E len \in LayerRunLens, x \in RunCols, y \in RunRows :
        below' = push_span_only_valid(below,
                     NewRun(Len(below.spans), len, x, y),
                     debug_assertions).layer
    /\ UNCHANGED <<above, overlapped, NoOverlapVars>>

\* above.push_span_only_valid(run)
PushAbove ==
    /\ ~overlapped.called
    /\ Len(above.spans) < MaxLayerRuns
    /\ \E len \in LayerRunLens, x \in RunCols, y \in RunRows :
        above' = push_span_only_valid(above,
                     NewRun(MaxLayerRuns + Len(above.spans), len, x, y),
                     debug_assertions).layer
    /\ UNCHANGED <<below, overlapped, NoOverlapVars>>

\* below.overlap(root, above.annotate(base)) returned (or aborted) with r
Overlapped(self_root, upper, r) ==
    overlapped' = [called |-> TRUE, self_root |-> self_root, upper |-> upper,
                   ret |-> r.layer, panic |-> r.panic]

CallOverlap ==
    /\ ~overlapped.called
    /\ \E rx \in Offsets, ry \in Offsets, ux \in Offsets, uy \in Offsets :
        Overlapped(<<rx, ry>>, annotate(above, <<ux, uy>>),
                   overlap(below, <<rx, ry>>, annotate(above, <<ux, uy>>),
                           debug_assertions))
    /\ UNCHANGED <<below, above, NoOverlapVars>>

NextOverlap ==
    \/ PushBelow
    \/ PushAbove
    \/ CallOverlap

SpecOverlap == InitOverlap /\ [][NextOverlap]_vars

\* the runs of the upper Layer, each moved by the upper Layer's base
MovedRuns(upper) ==
    [i \in 1..Len(upper.inner.spans) |->
        [upper.inner.spans[i] EXCEPT
            !.base_x = @ + upper.base_x, !.base_y = @ + upper.base_y]]

\* every column and row a run of the sequences covers
ColsOfAll(spans) == UNION {ColsOf(t) : t \in Range(spans)}
RowsOfAll(spans) == {t.base_y : t \in Range(spans)}

\* C14: for conflict-free Layers A and U, A.overlap(root, U at (ux, uy))
\* returns a new Layer and leaves A unchanged; the result holds every run of
\* U moved by (ux, uy) with its cells unchanged, plus the parts of A's runs
\* (at A's own coordinates) the moved runs do not cover; no two runs of the
\* result conflict; the result is anchored at (min(root.x, ux), min(root.y, uy)).
C14_OverlapPutsUpperOverLower ==
    (overlapped.called /\ ConflictFree(below.spans) /\ ConflictFree(above.spans))
    => /\ overlapped.panic = "none"
       /\ \A i \in 1..Len(above.spans) :
            MovedRuns(overlapped.upper)[i] \in Range(overlapped.ret.inner.spans)
       /\ \A c \in ColsOfAll(below.spans \o MovedRuns(overlapped.upper)
                              \o overlapped.ret.inner.spans),
             r \in RowsOfAll(below.spans \o MovedRuns(overlapped.upper)
                              \o overlapped.ret.inner.spans) :
            Shown(overlapped.ret.inner.spans, c, r) =
                IF Shown(MovedRuns(overlapped.upper), c, r) # {}
                THEN Shown(MovedRuns(overlapped.upper), c, r)
                ELSE Shown(below.spans, c, r)
       /\ \A i \in 1..Len(overlapped.ret.inner.spans) :
            ~is_empty(overlapped.ret.inner.spans[i])
       /\ ConflictFree(overlapped.ret.inner.spans)
       /\ base_pos(overlapped.ret) =
            <<Min(overlapped.self_root[1], overlapped.upper.base_x),
              Min(overlapped.self_root[2], overlapped.upper.base_y)>>

\* ==== SpecCanvas: a Canvas driven through its public API ===================

InitCanvas ==
    /\ InitLayer
    /\ debug_assertions \in BOOLEAN
    /\ IdleConflict
    /\ IdleSplit
    /\ IdleSpan
    /\ IdleOverlap
    /\ IdleCanvas
    /\ IdleWindow
    /\ IdleDraw
    /\ IdleFixed

NoCanvasVars == <<layerVars, conflictVars, splitVars, spanVars, overlapVars,
                  windowVars, drawVars,
                fixedVars>>

CanCallCanvas == canvas_call.panic = "none" /\ canvas_call.n < MaxCanvasOps

\* the layers handed to the call in progress: a Layer::default() after
\* push_span_write of one run, annotated with a base
NewLayers ==
    {annotate(push_span_write(LayerDefault,
                              NewRun(canvas_call.n, len, x, 0),
                              debug_assertions).layer,
              base) :
        len \in CanvasRunLens, x \in CanvasRunCols, base \in CanvasBases}

\* a call that cannot abort left the Canvas `after`
CanvasCalled(op, z_index, a_layer, after) ==
    /\ canvas' = after
    /\ canvas_call' = [op |-> op, z |-> z_index, layer |-> a_layer,
                       n |-> canvas_call.n + 1, panic |-> "none",
                       pre |-> canvas]

\* a call returned (or aborted) with r = [canvas, panic]
CanvasReturned(op, z_index, a_layer, r) ==
    /\ canvas' = r.canvas
    /\ canvas_call' = [op |-> op, z |-> z_index, layer |-> a_layer,
                       n |-> canvas_call.n + 1, panic |-> r.panic,
                       pre |-> canvas]

OverlapLayer ==
    /\ CanCallCanvas
    /\ \E a_layer \in NewLayers :
        CanvasCalled("overlap_layer", canvas.front, a_layer,
                     overlap_layer(canvas, a_layer))
    /\ UNCHANGED NoCanvasVars

Insert ==
    /\ CanCallCanvas
    /\ \E z_index \in CanvasZs, a_layer \in NewLayers :
        CanvasCalled("insert", z_index, a_layer,
                     canvas_insert(canvas, z_index, a_layer))
    /\ UNCHANGED NoCanvasVars

Merge ==
    /\ CanCallCanvas
    /\ \E z_index \in CanvasZs, a_layer \in NewLayers :
        CanvasReturned("merge", z_index, a_layer,
                       merge(canvas, z_index, a_layer, debug_assertions))
    /\ UNCHANGED NoCanvasVars

InsertOrMerge ==
    /\ CanCallCanvas
    /\ \E z_index \in CanvasZs, a_layer \in NewLayers :
        CanvasReturned("insert_or_merge", z_index, a_layer,
                       insert_or_merge(canvas, z_index, a_layer,
                                       debug_assertions))
    /\ UNCHANGED NoCanvasVars

\* create_view returned (or aborted) with r = [view, panic]
Viewed(r) ==
    canvas_call' = [op |-> "create_view", n |-> canvas_call.n,
                    panic |-> r.panic, pre |-> canvas, view |-> r.view]

CreateView ==
    /\ canvas_call.panic = "none"
    /\ canvas_call.op # "create_view"
    /\ Viewed(create_view(canvas, debug_assertions))
    /\ UNCHANGED <<canvas, NoCanvasVars>>

NextCanvas ==
    \/ OverlapLayer
    \/ Insert
    \/ Merge
    \/ InsertOrMerge
    \/ CreateView

SpecCanvas == InitCanvas /\ [][NextCanvas]_vars

\* the z-indices a Canvas holds a layer at
Keys(self) == DOMAIN self.layers

\* the cells the layer at z-index z shows at column c, row r of the Canvas:
\* a run is at its own base plus the base of its layer
ShownByLayer(self, z, c, r) ==
    Shown(self.layers[z].inner.spans,
          c - self.layers[z].base_x, r - self.layers[z].base_y)

\* C15: merge(z, layer) on an index z that holds no layer behaves like
\* insert(z, layer): afterwards index z holds the given layer, front is at
\* least z + 1, and the cached width and height cover the layer.
C15_MergeOnFreeIndexInserts ==
    (canvas_call.op = "merge" /\ canvas_call.z \notin Keys(canvas_call.pre))
    => /\ canvas = canvas_insert(canvas_call.pre, canvas_call.z,
                                 canvas_call.layer)
       /\ canvas_call.z \in Keys(canvas)
       /\ canvas.layers[canvas_call.z] = canvas_call.layer
       /\ canvas.front >= canvas_call.z + 1
       /\ canvas.width >= canvas_call.layer.base_x + width(canvas_call.layer)
       /\ canvas.height >= canvas_call.layer.base_y + height(canvas_call.layer)

\* C16: insert_or_merge(z, layer) on an occupied z keeps the number of layers
\* and replaces the occupant with occupant.overlap(occupant.base, layer), in
\* which the new layer's runs are kept whole and the occupant's runs are
\* clipped where the two overlap; on a free z it adds the layer at z; the
\* layers at every other index are unchanged.
C16_InsertOrMergeMergesOrInserts ==
    canvas_call.op = "insert_or_merge"
    => /\ canvas_call.panic = "none"
       /\ Keys(canvas) = Keys(canvas_call.pre) \cup {canvas_call.z}
       /\ \A z \in Keys(canvas) \ {canvas_call.z} :
            canvas.layers[z] = canvas_call.pre.layers[z]
       /\ canvas_call.z \notin Keys(canvas_call.pre)
            => canvas.layers[canvas_call.z] = canvas_call.layer
       /\ canvas_call.z \in Keys(canvas_call.pre)
            => /\ canvas.layers[canvas_call.z] =
                    overlap(canvas_call.pre.layers[canvas_call.z].inner,
                            base_pos(canvas_call.pre.layers[canvas_call.z]),
                            canvas_call.layer, FALSE).layer
               /\ \A i \in 1..Len(canvas_call.layer.inner.spans) :
                    MovedRuns(canvas_call.layer)[i]
                        \in Range(canvas.layers[canvas_call.z].inner.spans)
               /\ \A t \in Range(canvas.layers[canvas_call.z].inner.spans) :
                    \/ t \in Range(MovedRuns(canvas_call.layer))
                    \/ /\ \A m \in Range(MovedRuns(canvas_call.layer)) :
                             ~is_conflict(t, m)
                       /\ \A c \in ColsOf(t) :
                             CellOf(t, c) \in
                                 Shown(canvas_call.pre.layers[canvas_call.z]
                                           .inner.spans, c, t.base_y)

\* C17: after any sequence of overlap_layer, insert, merge and
\* insert_or_merge calls the front counter is greater than every z-index
\* present (one past the highest index used), so overlap_layer adds the
\* layer at an unused index above all existing layers, replaces no layer
\* and increases the number of layers by one.
C17_FrontIsAboveEveryLayer ==
    /\ \A z \in Keys(canvas) : canvas.front > z
    /\ canvas.front = 0 \/ (canvas.front - 1) \in Keys(canvas)
    /\ canvas_call.op = "overlap_layer"
        => /\ canvas_call.z \notin Keys(canvas_call.pre)
           /\ \A z \in Keys(canvas_call.pre) : canvas_call.z > z
           /\ Keys(canvas) = Keys(canvas_call.pre) \cup {canvas_call.z}
           /\ Cardinality(Keys(canvas)) = Cardinality(Keys(canvas_call.pre)) + 1
           /\ canvas.layers[canvas_call.z] = canvas_call.layer
           /\ \A z \in Keys(canvas_call.pre) :
                canvas.layers[z] = canvas_call.pre.layers[z]

\* C17 witness: overlap_layer on a Canvas whose only layer was inserted at
\* z-index 2, so the new layer is at 3 and not at the number of layers
C17_Witness ==
    /\ canvas_call.op = "overlap_layer"
    /\ Keys(canvas_call.pre) = {2}
    /\ Keys(canvas) = {2, 3}

\* the z-indices whose layer has a run covering column c, row r
CoveringLayers(self, c, r) ==
    {z \in Keys(self) : ShownByLayer(self, z, c, r) # {}}

\* the highest of a non-empty set of z-indices
Highest(zs) == CHOOSE z \in zs : \A o \in zs : z >= o

\* C18: create_view returns a grid of exactly width * height entries; each
\* position holds the cell of the run covering it in the layer of highest
\* z-index that has a run covering it, and the empty value when no layer
\* has one; a higher layer's cell wins over a non-empty lower cell.
C18_ViewShowsHighestLayer ==
    canvas_call.op = "create_view"
    => /\ canvas_call.panic = "none"
       /\ canvas_call.view.width = canvas.width
       /\ canvas_call.view.height = canvas.height
       /\ Len(canvas_call.view.cells) = canvas.width * canvas.height
       /\ \A c \in 0..(canvas.width - 1), r \in 0..(canvas.height - 1) :
            IF CoveringLayers(canvas, c, r) = {}
            THEN canvas_call.view.cells[c + r * canvas.width + 1] = None
            ELSE {canvas_call.view.cells[c + r * canvas.width + 1]} =
                 {Some(cell) : cell \in
                     ShownByLayer(canvas,
                                  Highest(CoveringLayers(canvas, c, r)), c, r)}
       /\ \A z \in Keys(canvas) :
            \A t \in Range(canvas.layers[z].inner.spans) :
                /\ t.base_y + canvas.layers[z].base_y < canvas.height
                /\ \A c \in ColsOf(t) :
                     c + canvas.layers[z].base_x < canvas.width

\* C18 witness: a view of a Canvas in which two layers have a run over the
\* same position, an empty position is left, and the view shows the cell of
\* the higher layer there
C18_Witness ==
    /\ canvas_call.op = "create_view"
    /\ canvas_call.panic = "none"
    /\ \E c \in 0..(canvas.width - 1), r \in 0..(canvas.height - 1) :
        /\ Cardinality(CoveringLayers(canvas, c, r)) = 2
        /\ \E lo \in CoveringLayers(canvas, c, r) :
            /\ lo # Highest(CoveringLayers(canvas, c, r))
            /\ ShownByLayer(canvas, lo, c, r) #
                   ShownByLayer(canvas, Highest(CoveringLayers(canvas, c, r)),
                                c, r)
    /\ \E i \in 1..Len(canvas_call.view.cells) :
        canvas_call.view.cells[i] = None

\* the largest of a set of naturals, 0 for the empty set
Largest(ns) == IF ns = {} THEN 0 ELSE CHOOSE n \in ns : \A o \in ns : n >= o

\* the outer apex of the layer a Canvas holds at z: layer base + layer size
LayerApexX(self, z) == base_pos(self.layers[z])[1] + width(self.layers[z])
LayerApexY(self, z) == base_pos(self.layers[z])[2] + height(self.layers[z])

\* C27: after any sequence of overlap_layer, insert, merge and
\* insert_or_merge calls the cached width and height of the Canvas equal the
\* maximum outer apex (layer base + layer size) over the layers the Canvas
\* holds, also after insert or merge replaced a layer by a smaller one.
C27_CachedSizeIsMaxApexOfHeldLayers ==
    /\ canvas.width = Largest({LayerApexX(canvas, z) : z \in Keys(canvas)})
    /\ canvas.height = Largest({LayerApexY(canvas, z) : z \in Keys(canvas)})

\* the entry a view shows at column c, row r: nothing outside the view
EntryAt(view, c, r) ==
    IF c < view.width /\ r < view.height
    THEN view.cells[c + r * view.width + 1]
    ELSE None

\* the Canvas before the last call with the layer handed to the call
\* inserted directly above the index the call named
Stacked ==
    canvas_insert(canvas_call.pre, canvas_call.z + 1, canvas_call.layer)

\* C29: when index z holds an occupant, the view after merge(z, new) shows
\* at every absolute position the cell that the view of the Canvas holding
\* the occupant at z and the new layer directly above it shows there,
\* whatever the bases of the occupant and of the new layer.
C29_MergeShowsWhatStackingShows ==
    (/\ canvas_call.op = "merge"
     /\ canvas_call.z \in Keys(canvas_call.pre)
     /\ (canvas_call.z + 1) \notin Keys(canvas_call.pre))
    => /\ canvas_call.panic = "none"
       /\ create_view(canvas, debug_assertions).panic = "none"
       /\ \A c \in 0..Max(canvas.width, Stacked.width),
              r \in 0..Max(canvas.height, Stacked.height) :
            EntryAt(create_view(canvas, debug_assertions).view, c, r) =
                EntryAt(create_view(Stacked, debug_assertions).view, c, r)

\* C30: every run of every layer of a Canvas built through overlap_layer,
\* insert, merge and insert_or_merge lies inside the cached bounds of the
\* Canvas (layer x + run x + run length <= width, layer y + run y < height),
\* and create_view returns a grid of width * height entries without
\* indexing out of range, each run written within one row of the grid.
C30_RunsInsideCanvasBounds ==
    /\ \A z \in Keys(canvas) :
         \A t \in Range(canvas.layers[z].inner.spans) :
            /\ canvas.layers[z].base_x + t.base_x + span_len(t.inner)
                    <= canvas.width
            /\ canvas.layers[z].base_y + t.base_y < canvas.height
    /\ canvas_call.op = "create_view"
        => /\ canvas_call.panic = "none"
           /\ Len(canvas_call.view.cells) = canvas.width * canvas.height

\* C30 witness: a view was made of a Canvas whose layer, based away from the
\* origin, holds a run ending exactly at the cached width of the Canvas.
C30_Witness ==
    /\ canvas_call.op = "create_view"
    /\ canvas_call.panic = "none"
    /\ \E z \in Keys(canvas) :
        /\ base_pos(canvas.layers[z]) # <<0, 0>>
        /\ \E t \in Range(canvas.layers[z].inner.spans) :
            /\ span_len(t.inner) = 3
            /\ canvas.layers[z].base_x + t.base_x + 3 = canvas.width

\* ==== SpecView: create_view on a Canvas of one or two layers ===============

\* a Layer::default() after push_span_write of one run, annotated with a
\* base; k numbers the layer
ViewLayer(k, len, x, base) ==
    annotate(push_span_write(LayerDefault, NewRun(k, len, x, 0), FALSE).layer,
             base)

\* the layers of the small Canvases
SmallLayers(k) ==
    {ViewLayer(k, len, x, base) :
        len \in CanvasRunLens, x \in CanvasRunCols, base \in CanvasBases}

\* Canvas::default() after overlap_layer of one or two small layers, or of
\* the one-cell layer at a large base
ViewCanvases ==
    {overlap_layer(CanvasDefault, a) : a \in SmallLayers(0)}
    \cup {overlap_layer(overlap_layer(CanvasDefault, a), b) :
            a \in SmallLayers(0), b \in SmallLayers(1)}
    \cup {overlap_layer(CanvasDefault, ViewLayer(0, 1, 0, base)) :
            base \in LargeBases}

InitView ==
    /\ InitLayer
    /\ debug_assertions \in BOOLEAN
    /\ IdleConflict
    /\ IdleSplit
    /\ IdleSpan
    /\ IdleOverlap
    /\ canvas \in ViewCanvases
    /\ canvas_call = [op |-> "new", n |-> 0, panic |-> "none"]
    /\ IdleWindow
    /\ IdleDraw
    /\ IdleFixed

NextView == CreateView

SpecView == InitView /\ [][NextView]_vars

\* ==== SpecWindow: views queued in a Window, then create_virtual_terminal ===

InitWindow ==
    /\ InitLayer
    /\ debug_assertions \in BOOLEAN
    /\ IdleConflict
    /\ IdleSplit
    /\ IdleSpan
    /\ IdleOverlap
    /\ IdleCanvas
    /\ \E w \in WindowSides, h \in WindowSides :
        window = annotate(window_new(w, h), <<1, 2>>)
    /\ vterm = [called |-> FALSE]
    /\ IdleDraw
    /\ IdleFixed

NoWindowVars == <<layerVars, conflictVars, splitVars, spanVars, overlapVars,
                  canvasVars, drawVars, fixedVars>>

\* the cells of the view queued as number k (0-based): w * h entries, every
\* cell its own character, entry k + 1 empty
ViewCells(k, w, h) ==
    [i \in 1..(w * h) |-> IF i = k + 1 THEN None ELSE Some(Cell(96 + 16 * k + i))]

\* window.overlap(View::new(w, h, cells).annotate((x, y)))
QueueView ==
    /\ ~vterm.called
    /\ Len(window.inner.views) < MaxViews
    /\ \E w \in ViewWidths, h \in ViewHeights, x \in ViewCols, y \in ViewRows :
        window' = [window EXCEPT !.inner =
            window_overlap(window.inner,
                annotate(view_new(w, h,
                             ViewCells(Len(window.inner.views), w, h)),
                         <<x, y>>))]
    /\ UNCHANGED <<vterm, NoWindowVars>>

\* window.overlap(View::new(32768, 2, cells).annotate((0, 0))) as the first
\* view of the queue
QueueWideView ==
    /\ ~vterm.called
    /\ window.inner.views = <<>>
    /\ window' = [window EXCEPT !.inner =
            window_overlap(window.inner,
                annotate(view_new(WideView[1], WideView[2],
                             ViewCells(0, WideView[1], WideView[2])),
                         <<0, 0>>))]
    /\ UNCHANGED <<vterm, NoWindowVars>>

\* create_virtual_terminal returned (or aborted) with r = [vterm, panic]
Composited(r) == vterm' = [called |-> TRUE, ret |-> r.vterm, panic |-> r.panic]

CreateVirtualTerminal ==
    /\ ~vterm.called
    /\ Composited(create_virtual_terminal(window, debug_assertions))
    /\ UNCHANGED <<window, NoWindowVars>>

NextWindow ==
    \/ QueueView
    \/ QueueWideView
    \/ CreateVirtualTerminal

SpecWindow == InitWindow /\ [][NextWindow]_vars

\* the columns create_virtual_terminal copies from a queued view
DrawableWidth(v) ==
    Min(window.inner.width,
        IF v.inner.width > v.base_x THEN v.inner.width - v.base_x ELSE 0)

\* the view reaches the Window's bottom row and fits its width
ReachesBottomAndFits(v) ==
    /\ v.base_y <= window.inner.height
    /\ v.inner.height >= window.inner.height - v.base_y
    /\ v.base_x + DrawableWidth(v) <= window.inner.width

\* the region copied from a queued view covers column c, row r of the frame
RegionCovers(v, c, r) ==
    /\ r >= v.base_y /\ r < window.inner.height
    /\ c >= v.base_x /\ c < v.base_x + DrawableWidth(v)

\* the queue positions of the views whose copied region covers (c, r)
CoveringViews(c, r) ==
    {k \in 1..Len(window.inner.views) :
        RegionCovers(window.inner.views[k], c, r)}

\* the entry the view holds for column c, row r of the frame: its row
\* r - view.y, its column c
ViewEntry(v, c, r) == v.inner.cells[(r - v.base_y) * v.inner.width + c + 1]

\* C19: when every queued view reaches the Window's bottom row and fits its
\* width, create_virtual_terminal composites the views in insertion order:
\* each frame position holds the value, empty or not, copied from the
\* last-queued view whose copied region covers it, and is empty when no
\* region covers it; a later view's empty cell replaces an earlier view's
\* non-empty cell.
C19_LaterViewsWinCellForCell ==
    (vterm.called
        /\ \A k \in 1..Len(window.inner.views) :
             ReachesBottomAndFits(window.inner.views[k]))
    => /\ vterm.panic = "none"
       /\ base_pos(vterm.ret) = base_pos(window)
       /\ Len(vterm.ret.inner.cells) = window.inner.width * window.inner.height
       /\ \A c \in 0..(window.inner.width - 1),
             r \in 0..(window.inner.height - 1) :
            vterm.ret.inner.cells[c + r * window.inner.width + 1] =
                IF CoveringViews(c, r) = {} THEN None
                ELSE ViewEntry(window.inner.views[Highest(CoveringViews(c, r))],
                               c, r)

\* C19 witness: two queued views that reach the bottom row and fit, the
\* later one holding an empty entry where the earlier one holds a cell, and
\* the frame empty there
C19_Witness ==
    /\ vterm.called
    /\ vterm.panic = "none"
    /\ Len(window.inner.views) = 2
    /\ \A k \in 1..2 : ReachesBottomAndFits(window.inner.views[k])
    /\ \E c \in 0..(window.inner.width - 1),
          r \in 0..(window.inner.height - 1) :
        /\ CoveringViews(c, r) = {1, 2}
        /\ ViewEntry(window.inner.views[1], c, r) # None
        /\ ViewEntry(window.inner.views[2], c, r) = None
        /\ vterm.ret.inner.cells[c + r * window.inner.width + 1] = None

\* C20: create_virtual_terminal returns a frame buffer, without abort or
\* out-of-range access, for every Window size and every queue of views whose
\* cell count is width * height, whatever their sizes and offsets (a y offset
\* beyond the Window's height, a view shorter than window.height - view.y, a
\* view wider than the Window); a view whose drawable width or height is 0
\* is skipped.
C20_CompositingNeverAborts ==
    (vterm.called
        /\ \A k \in 1..Len(window.inner.views) :
             Len(window.inner.views[k].inner.cells) =
                 window.inner.views[k].inner.width
                     * window.inner.views[k].inner.height)
    => /\ vterm.panic = "none"
       /\ Len(vterm.ret.inner.cells) = window.inner.width * window.inner.height

\* the view reaches the Window's bottom row and holds width * height cells
ReachesBottom(v) ==
    /\ v.base_y <= window.inner.height
    /\ v.inner.height >= window.inner.height - v.base_y
    /\ Len(v.inner.cells) = v.inner.width * v.inner.height

\* the part of the region copied from a queued view that lies inside the
\* Window's columns covers column c, row r of the frame
RegionInsideCovers(v, c, r) ==
    /\ RegionCovers(v, c, r)
    /\ c < window.inner.width

\* the queue positions of the views whose clipped region covers (c, r)
CoveringViewsInside(c, r) ==
    {k \in 1..Len(window.inner.views) :
        RegionInsideCovers(window.inner.views[k], c, r)}

\* C28: the cells create_virtual_terminal copies for row r of a view land
\* only in frame row view.y + r, at the columns from view.x on that lie
\* inside the Window: for every view width and x offset (a view wider than
\* the Window placed at x > 0 included) no copy reaches the next row or the
\* end of the buffer, so the call returns and every frame position holds the
\* entry of the last view whose region covers it in its own row.
C28_RowCopiesStayInsideTheirRow ==
    (vterm.called
        /\ \A k \in 1..Len(window.inner.views) :
             ReachesBottom(window.inner.views[k]))
    => /\ vterm.panic = "none"
       /\ Len(vterm.ret.inner.cells) = window.inner.width * window.inner.height
       /\ \A c \in 0..(window.inner.width - 1),
             r \in 0..(window.inner.height - 1) :
            vterm.ret.inner.cells[c + r * window.inner.width + 1] =
                IF CoveringViewsInside(c, r) = {} THEN None
                ELSE ViewEntry(window.inner.views[
                                   Highest(CoveringViewsInside(c, r))], c, r)

\* ==== SpecFrame: the frame buffer of a Window of any declared size =========

InitFrame ==
    /\ InitLayer
    /\ debug_assertions \in BOOLEAN
    /\ IdleConflict
    /\ IdleSplit
    /\ IdleSpan
    /\ IdleOverlap
    /\ IdleCanvas
    /\ \E w \in FrameSides, h \in FrameSides :
        window = annotate(window_new(w, h), <<0, 0>>)
    /\ vterm = [called |-> FALSE]
    /\ IdleDraw
    /\ IdleFixed

\* window.resize(w, h)
Resize ==
    /\ ~vterm.called
    /\ \E w \in FrameSides, h \in FrameSides :
        window' = [window EXCEPT !.inner = window_resize(window.inner, w, h)]
    /\ UNCHANGED <<vterm, NoWindowVars>>

NextFrame ==
    \/ Resize
    \/ CreateVirtualTerminal

SpecFrame == InitFrame /\ [][NextFrame]_vars

\* C23: for every Window, whatever its 16-bit width and height (sizes whose
\* product exceeds 65535, such as 300 x 300, included), create_virtual_terminal
\* returns a frame buffer of exactly width * height entries, row r of the
\* frame being the entries r * width .. (r + 1) * width - 1.
C23_FrameHoldsWidthTimesHeightEntries ==
    vterm.called
    => /\ vterm.panic = "none"
       /\ width(vterm.ret) = window.inner.width
       /\ height(vterm.ret) = window.inner.height
       /\ Len(vterm.ret.inner.cells) = window.inner.width * window.inner.height
       /\ \A r \in 0..(window.inner.height - 1) :
            (r + 1) * window.inner.width <= Len(vterm.ret.inner.cells)

\* ==== SpecDraw: convert_to_spans on a frame buffer =========================

\* the entries of a frame: entry i empty, or the cell of its own character
FrameEntries(n, full) ==
    [i \in 1..n |-> IF i \in full THEN Some(Cell(96 + i)) ELSE None]

\* the small frames: VTerm::new(w, h, entries).annotate(base) with w * h
\* entries, every choice of empty and non-empty entries
SmallFrames ==
    {annotate(vterm_new(q[1], q[2], FrameEntries(q[1] * q[2], q[3])), q[4]) :
        q \in {t \in (0..MaxTermWidth) \X (0..MaxTermHeight)
                      \X (SUBSET (1..(MaxTermWidth * MaxTermHeight)))
                      \X DrawBases :
                  t[3] \subseteq 1..(t[1] * t[2])}}

\* the long frames: LongFrame[1] x LongFrame[2] entries, two more than a u16
\* has values, all empty but for a choice among the first two entries of
\* the last row, whose indices are the last a u16 holds and the first it
\* does not
LongFrames ==
    {annotate(vterm_new(LongFrame[1], LongFrame[2],
                        FrameEntries(LongFrame[1] * LongFrame[2], full)),
              base) :
        full \in SUBSET ((LongFrame[1] * LongFrame[2] - 2)
                             ..(LongFrame[1] * LongFrame[2] - 1)),
        base \in DrawBases}

Frames == SmallFrames \cup LongFrames

InitDraw ==
    /\ InitLayer
    /\ debug_assertions = TRUE
    /\ IdleConflict
    /\ IdleSplit
    /\ IdleSpan
    /\ IdleOverlap
    /\ IdleCanvas
    /\ IdleWindow
    /\ frame \in Frames
    /\ drawn = [called |-> FALSE]
    /\ IdleFixed

NoDrawVars == <<layerVars, conflictVars, splitVars, spanVars, overlapVars,
                canvasVars, windowVars, fixedVars>>

\* convert_to_spans returned (or aborted) with r = [res, panic]
Drawn(r) == drawn' = [called |-> TRUE, res |-> r.res, panic |-> r.panic]

\* convert_to_spans(frame)
ConvertToSpans ==
    /\ ~drawn.called
    /\ Drawn(convert_to_spans(frame))
    /\ UNCHANGED <<frame, NoDrawVars>>

NextDraw == ConvertToSpans

SpecDraw == InitDraw /\ [][NextDraw]_vars

\* the column and the row of the frame a paint command starts at
CmdCol(cmd) == cmd.moveto[1] - base_pos(frame)[1]
CmdRow(cmd) == cmd.moveto[2] - base_pos(frame)[2]

\* the entry of the frame at column c, row r
FrameEntry(c, r) == frame.inner.cells[r * width(frame) + c + 1]

\* a cell is held by an entry of the frame (every cell of a frame is held
\* by one entry only)
IsHeld(cell) ==
    \E i \in 1..Len(frame.inner.cells) : frame.inner.cells[i] = Some(cell)

\* the number of entries before the one that holds the first cell of a
\* paint command
CmdStart(cmd) ==
    (CHOOSE i \in 1..Len(frame.inner.cells) :
        frame.inner.cells[i] = Some(cmd.span[1])) - 1

\* the cells of a paint command are those of the entries that follow the
\* first start entries of the frame, all in one row, and the entries of the
\* row next to them on either side are empty
MaximalRowRun(cmd, start) ==
    /\ start + Len(cmd.span) <= Len(frame.inner.cells)
    /\ \A n \in 1..Len(cmd.span) :
         frame.inner.cells[start + n] = Some(cmd.span[n])
    /\ (start % width(frame)) + Len(cmd.span) <= width(frame)
    /\ start % width(frame) # 0 => frame.inner.cells[start] = None
    /\ (start % width(frame)) + Len(cmd.span) < width(frame)
         => frame.inner.cells[start + Len(cmd.span) + 1] = None

\* C21: for a frame of non-zero width every paint command convert_to_spans
\* returns holds at least one cell, holds the cells of non-empty entries that
\* are contiguous in a single row of the frame, and is maximal: it is not
\* adjacent to another non-empty entry of its row and does not continue
\* across the end of its row.
C21_CommandsAreMaximalRowRuns ==
    (drawn.called /\ width(frame) > 0)
    => /\ drawn.panic = "none"
       /\ \A k \in 1..Len(drawn.res) :
            /\ Len(drawn.res[k].span) >= 1
            /\ IsHeld(drawn.res[k].span[1])
            /\ MaximalRowRun(drawn.res[k], CmdStart(drawn.res[k]))

\* C21 witness: a frame three entries wide whose first row holds two
\* commands around an empty entry, the second of them ending the row, and
\* whose next row starts with a non-empty entry.
C21_Witness ==
    /\ drawn.called
    /\ drawn.panic = "none"
    /\ width(frame) = 3
    /\ height(frame) = 2
    /\ FrameEntry(0, 0) # None /\ FrameEntry(1, 0) = None
    /\ FrameEntry(2, 0) # None /\ FrameEntry(0, 1) # None
    /\ Len(drawn.res) >= 3
    /\ CmdRow(drawn.res[2]) = 0 /\ Len(drawn.res[2].span) = 1
    /\ CmdRow(drawn.res[3]) = 1 /\ CmdCol(drawn.res[3]) = 0

\* the cells a paint command paints: <<absolute column, absolute row, cell>>
CmdCells(cmd) ==
    {<<cmd.moveto[1] + n - 1, cmd.moveto[2], cmd.span[n]>> :
        n \in 1..Len(cmd.span)}

\* the non-empty entries of the frame at their absolute positions
FrameCells ==
    {<<base_pos(frame)[1] + ((i - 1) % width(frame)),
       base_pos(frame)[2] + ((i - 1) \div width(frame)),
       frame.inner.cells[i].val>> :
        i \in {n \in 1..Len(frame.inner.cells) : frame.inner.cells[n].some}}

\* C22: for a frame of non-zero width annotated at (bx, by) the commands
\* cover every non-empty entry exactly once and nothing else, the entry at
\* column c, row r being painted at absolute position (bx + c, by + r), and
\* the commands are returned in row-major order.
C22_CommandsCoverNonEmptyCellsOnce ==
    (drawn.called /\ width(frame) > 0)
    => /\ drawn.panic = "none"
       /\ UNION {CmdCells(drawn.res[k]) : k \in 1..Len(drawn.res)} = FrameCells
       /\ \A j, k \in 1..Len(drawn.res) :
            j # k => CmdCells(drawn.res[j]) \cap CmdCells(drawn.res[k]) = {}
       /\ \A j, k \in 1..Len(drawn.res) :
            j < k => \/ drawn.res[j].moveto[2] < drawn.res[k].moveto[2]
                     \/ /\ drawn.res[j].moveto[2] = drawn.res[k].moveto[2]
                        /\ drawn.res[j].moveto[1] < drawn.res[k].moveto[1]

\* C22 witness: a frame annotated away from the origin whose second row
\* holds a command that starts after the first column, after a command of
\* the first row.
C22_Witness ==
    /\ drawn.called
    /\ drawn.panic = "none"
    /\ base_pos(frame) = <<1, 2>>
    /\ Len(drawn.res) >= 2
    /\ drawn.res[1].moveto[2] = 2
    /\ \E k \in 2..Len(drawn.res) :
        /\ drawn.res[k].moveto = <<3, 3>>
        /\ Len(drawn.res[k].span) = 1
        /\ <<3, 3, drawn.res[k].span[1]>> \in FrameCells

\* ==== SpecFixed: push_span_fixed, one turn of its work queue at a time =====

InitFixed ==
    /\ InitLayer
    /\ debug_assertions \in BOOLEAN
    /\ IdleConflict
    /\ IdleSplit
    /\ IdleSpan
    /\ IdleOverlap
    /\ IdleCanvas
    /\ IdleWindow
    /\ IdleDraw
    /\ IdleFixed

NoFixedVars == <<conflictVars, splitVars, spanVars, overlapVars, canvasVars,
                 windowVars, drawVars>>

\* the run handed to push_span_fixed: capital letters, on row 0
FixedRun(len, x) == annotate(span_from([i \in 1..len |-> 64 + i]), <<x, 0>>)

\* push_span_write returned or aborted with r = [layer, panic]
Stored(r) ==
    /\ layer' = r.layer
    /\ panic' = r.panic

\* layer.push_span_write(run) before the call of push_span_fixed; an abort
\* of it ends the program
StoreRun ==
    /\ fixed.pc = "idle"
    /\ panic = "none"
    /\ ops < MaxStored
    /\ \E len \in FixedStoredLens, x \in FixedStoredCols :
        Stored(push_span_write(layer, NewRun(ops, len, x, 0),
                               debug_assertions))
    /\ ops' = ops + 1
    /\ UNCHANGED <<debug_assertions, call, pre, fixed, NoFixedVars>>

\* push_span_fixed(span) up to its loop: an empty run returns at once
FixedBegin ==
    /\ fixed.pc = "idle"
    /\ panic = "none"
    /\ \E len \in FixedNewLens, x \in FixedNewCols :
        /\ fixed' =
            IF is_empty(FixedRun(len, x))
            THEN [pc |-> "done", span |-> FixedRun(len, x), turns |-> 0,
                  spans |-> <<>>, tmp_deque |-> <<>>, tmp |-> <<>>]
            ELSE [pc |-> "loop", span |-> FixedRun(len, x), turns |-> 0,
                  spans |-> SelectSeq(layer.spans,
                                LAMBDA s : base_pos(s)[2] = 0),
                  tmp_deque |-> <<FixedRun(len, x)>>,
                  tmp |-> <<>>]
        /\ call' = [op |-> "push_span_fixed", span |-> FixedRun(len, x)]
    /\ pre' = layer
    /\ UNCHANGED <<layer, panic, debug_assertions, ops, NoFixedVars>>

\* the loop popped an element and handled it, leaving r = [tmp, deque, panic]
FixedTurned(r) ==
    /\ fixed' = [fixed EXCEPT
                    !.pc = IF r.panic = "none" THEN "loop" ELSE "aborted",
                    !.turns = @ + 1,
                    !.tmp_deque = r.deque,
                    !.tmp = r.tmp]
    /\ panic' = r.panic

\* one turn of `loop { let Some(tmp_elem) = tmp_deque.pop_front() .. }`
FixedTurn ==
    /\ fixed.pc = "loop"
    /\ fixed.tmp_deque # <<>>
    /\ FixedTurned(fixed_pop(fixed.tmp_deque, fixed.tmp, fixed.spans,
                             debug_assertions))
    /\ UNCHANGED <<layer, debug_assertions, ops, call, pre, NoFixedVars>>

\* `break` on the empty queue, and push_span_fixed after its loop
FixedEnd ==
    /\ fixed.pc = "loop"
    /\ fixed.tmp_deque = <<>>
    /\ layer' = fixed_store(layer, debug_assertions,
                            [tmp |-> fixed.tmp, deque |-> <<>>,
                             panic |-> "none"]).layer
    /\ fixed' = [fixed EXCEPT !.pc = "done"]
    /\ UNCHANGED <<panic, debug_assertions, ops, call, pre, NoFixedVars>>

NextFixed ==
    \/ StoreRun
    \/ FixedBegin
    \/ FixedTurn
    \/ FixedEnd

SpecFixed == InitFixed /\ [][NextFixed]_vars

\* the turns of the loop compute what the whole call computes
FixedTurnsAgreeWithCall ==
    /\ fixed.pc = "done"
        => /\ push_span_fixed(pre, fixed.span, debug_assertions).panic = "none"
           /\ layer = push_span_fixed(pre, fixed.span, debug_assertions).layer
    /\ fixed.pc = "aborted"
        => panic = push_span_fixed(pre, fixed.span, debug_assertions).panic

\* the weight of a queue of candidate fragments: a fragment of n cells
\* weighs base^n, so that a fragment weighs more than `base - 1` shorter ones
RECURSIVE QueueWeight(_, _)
QueueWeight(queue, base) ==
    IF queue = <<>> THEN 0
    ELSE base ^ span_len(Head(queue).inner) + QueueWeight(Tail(queue), base)

\* what is left to do of a call in progress: the turn that leaves the loop,
\* and the weight of the queue, a conflicting run leaving at most two
\* fragments of a popped one
Variant(f) ==
    IF f.pc = "loop"
    THEN 1 + QueueWeight(f.tmp_deque, 2 * Len(f.spans) + 1)
    ELSE 0

\* C24: push_span_fixed terminates for every Layer and every new run: every
\* turn of its loop strictly decreases what is left to do (a popped fragment
\* is kept, or replaced by shorter ones), so the work queue is empty after
\* finitely many turns, and the loop is left for the rest of the call only
\* on the empty queue; this also when the new run conflicts with several
\* stored runs of its row.
C24_FixedQueueDrains ==
    [][fixed.pc = "loop"
        => /\ Variant(fixed') < Variant(fixed)
           /\ fixed'.pc = "done" => fixed.tmp_deque = <<>>]_vars

\* C24 witness: a call returned after its new run conflicted with two stored
\* runs and fragments of it went through the queue again.
C24_Witness ==
    /\ fixed.pc = "done"
    /\ fixed.turns >= 4
    /\ \E e \in Range(fixed.spans), f \in Range(fixed.spans) :
        /\ e # f
        /\ is_conflict(e, fixed.span)
        /\ is_conflict(f, fixed.span)

====
